---- MODULE Spec2Model ----
(***************************************************************************)
(* Model of the Telegram relay of s3b_telegram_bot.                        *)
(*                                                                         *)
(* The inbound webhook handler (send_message_from_telegram) is modelled    *)
(* statement by statement at the granularity of its collaborator calls:    *)
(* every SQL statement and every HTTP request is one atomic step, and the  *)
(* local computation between two calls belongs to the step of the call     *)
(* that precedes it.  Two workers run the handler concurrently; a worker   *)
(* is reused for later invocations and keeps its cached connection.        *)
(*                                                                         *)
(* The GraphQL core behind createChatRoom, activateClosedChatRoom,         *)
(* createChatRoomMessage and updateMessageData, and the operator-side      *)
(* status changes, are not part of the handlers' source; they follow the   *)
(* chat-room state machine of the specification (section 4.3).             *)
(*                                                                         *)
(* Each SQL statement is its own transaction (the handler never commits,   *)
(* so the connection is taken to be in autocommit mode).                   *)
(***************************************************************************)
EXTENDS Naturals, Integers, Sequences, FiniteSets, TLC

\* ------------------------------------------------------------------------
\* Bounds of the model.
\* ------------------------------------------------------------------------
\* Total number of webhook invocations started, over all workers.
MaxRequests == 2
\* Total number of collaborator outages (failed SQL/HTTP calls) injected.
MaxOutages == 1

Workers == {"w1", "w2"}
Null == "null"

\* Strings that are formatted and split are sequences of tokens.
\* The route suffix of the webhook (event['rawPath'].rsplit('/', 1)[1]).
BusinessAccounts == { << "acme_bot" >> }
\* str(message["chat"]["id"]) values.
ChatIds == { << "100" >>, << "200" >> }
\* message.from.username values; Null is a sender without a username.
Usernames == {"alice", Null}
\* message["from"]: the metadata of the sender, a person or (is_bot) a bot.
From(username, is_bot) == [ username |-> username, is_bot |-> is_bot ]
Senders == { From("alice", FALSE), From(Null, FALSE), From(Null, TRUE) }
\* Organizations authorized to serve the channel of the business account.
Organizations == {"org1", "org2"}
\* The channel of the business account and its bot token.
ChannelId == "channel1"
BotToken == "token1"
\* The operator that picks rooms up (an internal user).
OperatorUserId == "operator1"

\* ------------------------------------------------------------------------
\* Inbound webhook bodies.
\* ------------------------------------------------------------------------
\* json.loads(event["body"]).get("message"): the fields the handler reads.
\* media is the one set field among contact, location, document, animation,
\* video, voice, audio, photo (Null when none is set; "animation" is the
\* payload of a GIF, which carries animation and document together); sticker
\* is Null, "animated" or "static"; poll is Null or "poll".
Message(text, media, sticker, poll) ==
    [text |-> text, media |-> media, sticker |-> sticker, poll |-> poll]

Messages ==
    { Message("hello", Null, Null, Null),
      Message("/start", Null, Null, Null),
      Message(Null, Null, Null, "poll"),
      Message(Null, Null, "animated", Null),
      Message(Null, Null, "static", Null),
      Message(Null, "photo", Null, Null),
      Message(Null, "contact", Null, Null),
      Message(Null, Null, Null, Null) }

VARIABLES
    identified_users,       \* table identified_users: rows [identified_user_id, telegram_username]
    users,                  \* table users: rows [user_id, identified_user_id, internal_user_id, unidentified_user_id]
    chat_rooms,             \* table chat_rooms: rows [chat_room_id, channel_id, chat_room_status]
    telegram_chat_rooms,    \* table telegram_chat_rooms: rows [chat_room_id, telegram_chat_id]
    relationship,           \* table chat_rooms_users_relationship: rows [chat_room_id, user_id]
    non_accepted_queue,     \* per-organization pending queue: rows [organization_id, channel_id, chat_room_id, client_id, last_message_content]
    accepted_queue,         \* accepted-rooms summary: rows [operator_id, channel_id, chat_room_id, last_message_content]
    completed_queue,        \* completed-rooms index: rows [operator_id, channel_id, chat_room_id]
    chat_room_messages,     \* message log: rows [message_id, chat_room_id, author_id, channel_id, text, content, is_sent]
    POSTGRESQL_CONNECTION,  \* per worker: the cached connection, Null or "open"
    pc,                     \* per worker: the call the invocation is at
    frame,                  \* per worker: the local variables of lambda_handler
    calls,                  \* per worker: the collaborator calls issued by the current invocation
    previous,               \* per worker: conversation and room resolved by its previous invocation
    requests,               \* number of invocations started
    outages,                \* number of collaborator outages injected
    relay_connection,       \* send_message_to_telegram: its cached connection, Null or "open"
    input_arguments,        \* send_message_to_telegram: body["arguments"]["input"] of the invocation
    relay_pc,               \* send_message_to_telegram: the call the invocation is at
    relay_frame,            \* send_message_to_telegram: the local variables of lambda_handler
    relay_calls,            \* send_message_to_telegram: the collaborator calls issued by the invocation
    payload,                \* form_message_format: the message object it is applied to
    formatted,              \* form_message_format: its outcome
    notification_connection, \* send_notification_to_telegram: its cached connection, Null or "open"
    notification_arguments, \* send_notification_to_telegram: body["arguments"]["input"] of the invocation
    notification_pc,        \* send_notification_to_telegram: the call the invocation is at
    notification_frame,     \* send_notification_to_telegram: the local variables of lambda_handler
    notification_calls      \* send_notification_to_telegram: the collaborator calls issued by the invocation

store == << identified_users, users, chat_rooms, telegram_chat_rooms, relationship,
            non_accepted_queue, accepted_queue, completed_queue, chat_room_messages >>

\* The state of the webhook invocations (send_message_from_telegram).
webhook == << POSTGRESQL_CONNECTION, pc, frame, calls, previous >>

\* The state of the relay invocation (send_message_to_telegram).
relay == << relay_connection, input_arguments, relay_pc, relay_frame, relay_calls >>

\* The state of the application of form_message_format.
format == << payload, formatted >>

\* The state of the notification invocation (send_notification_to_telegram).
notification == << notification_connection, notification_arguments, notification_pc,
                   notification_frame, notification_calls >>

vars == << store, webhook, requests, outages, relay, format, notification >>

\* ------------------------------------------------------------------------
\* Helpers.
\* ------------------------------------------------------------------------
\* "{0}:{1}".format(business_account, telegram_chat_id)
FormatTelegramChatId(business_account, chat_id) == business_account \o << ":" >> \o chat_id

\* A fresh primary key of a table whose rows are never deleted.
NewId(prefix, rows) == prefix \o ToString(Cardinality(rows) + 1)

\* The empty message object (no field set).
NoMessage == Message(Null, Null, Null, Null)

EmptyFrame ==
    [ business_account |-> << >>, telegram_chat_id |-> << >>, username |-> Null,
      is_bot |-> FALSE, message |-> NoMessage,
      chat_room_id |-> Null, channel_id |-> Null, chat_room_status |-> Null,
      client_id |-> Null, telegram_bot_token |-> Null, canned |-> Null,
      message_text |-> Null, message_content |-> << >>, message_id |-> Null,
      identified_user_id |-> Null, statusCode |-> Null ]

EmptyPrevious == [ telegram_chat_id |-> << >>, chat_room_id |-> Null ]

\* The stores the invocations start from: the empty store, or the store
\* after the first contact of alice in chat 100 ("hello", relayed and
\* acknowledged), with the room as the operator has left it since.
InitialStatuses == {"absent", "non_accepted", "accepted", "completed"}

FirstChat == FormatTelegramChatId(<< "acme_bot" >>, << "100" >>)

Operator ==
    [ user_id |-> OperatorUserId, identified_user_id |-> Null,
      internal_user_id |-> "internal1", unidentified_user_id |-> Null ]

InitStore(status) ==
    /\ identified_users =
          IF status = "absent" THEN {}
          ELSE { [ identified_user_id |-> "identified1", telegram_username |-> "alice" ] }
    /\ users =
          IF status = "absent" THEN { Operator }
          ELSE { Operator,
                 [ user_id |-> "user2", identified_user_id |-> "identified1",
                   internal_user_id |-> Null, unidentified_user_id |-> Null ] }
    /\ chat_rooms =
          IF status = "absent" THEN {}
          ELSE { [ chat_room_id |-> "room1", channel_id |-> ChannelId,
                   chat_room_status |-> status ] }
    /\ telegram_chat_rooms =
          IF status = "absent" THEN {}
          ELSE { [ chat_room_id |-> "room1", telegram_chat_id |-> FirstChat ] }
    /\ relationship =
          IF status = "absent" THEN {}
          ELSE { [ chat_room_id |-> "room1", user_id |-> "user2" ] } \cup
               IF status \in {"accepted", "completed"}
               THEN { [ chat_room_id |-> "room1", user_id |-> OperatorUserId ] }
               ELSE {}
    /\ non_accepted_queue =
          IF status = "non_accepted"
          THEN { [ organization_id |-> o, channel_id |-> ChannelId,
                   chat_room_id |-> "room1", client_id |-> "user2",
                   last_message_content |-> << "hello", << >> >> ] : o \in Organizations }
          ELSE {}
    /\ accepted_queue =
          IF status = "accepted"
          THEN { [ operator_id |-> OperatorUserId, channel_id |-> ChannelId,
                   chat_room_id |-> "room1",
                   last_message_content |-> << "hello", << >> >> ] }
          ELSE {}
    /\ completed_queue =
          IF status = "completed"
          THEN { [ operator_id |-> OperatorUserId, channel_id |-> ChannelId,
                   chat_room_id |-> "room1" ] }
          ELSE {}
    /\ chat_room_messages =
          IF status = "absent" THEN {}
          ELSE { [ message_id |-> "message1", chat_room_id |-> "room1",
                   author_id |-> "user2", channel_id |-> ChannelId,
                   text |-> "hello", content |-> << >>, is_sent |-> TRUE ] }

\* ------------------------------------------------------------------------
\* The mutation arguments of send_message_to_telegram.
\* ------------------------------------------------------------------------
\* The largest number of files sent as one media group.
MaxMediaGroup == 10

\* A permanent URL of a stored file, as the parts between its slashes.
StoredUrl(n) ==
    << "https:", "", "storage", "chat_rooms", "room1", "file" \o ToString(n) >>

\* One element of the messageContent list; url is << >> when the element
\* has no "url" key (a contact or a location has "details" instead).
File(category, url) == [ category |-> category, url |-> url ]

\* messageContent: None, or the JSON text of a list of files.
NoContent == [ json |-> FALSE, files |-> << >> ]
Content(files) == [ json |-> TRUE, files |-> files ]

FileCategories ==
    {"gif", "document", "image", "video", "audio", "sticker", "contact", "location"}

MessageContents ==
    { NoContent, Content(<< >>) }
    \cup { Content(<< File(c, IF c \in {"contact", "location"} THEN << >> ELSE StoredUrl(1)) >>) :
             c \in FileCategories }
    \cup { Content([ i \in 1..n |-> File(IF i = 1 THEN "image" ELSE "document", StoredUrl(i)) ]) :
             n \in {2, MaxMediaGroup, MaxMediaGroup + 1} }

\* The strings uuid.UUID accepts: the identifiers of the model stand for
\* UUID strings, "not-a-uuid" for a string that is none.
UuidStrings == {"room1", OperatorUserId, ChannelId, "user2", "message1"}

\* quotedMessage: its three identifiers (Null: the key is missing); null
\* tells the key that is present with the JSON value null.
QuotedMessage(message_id, author_id, channel_id) ==
    [ messageId |-> message_id, messageAuthorId |-> author_id,
      messageChannelId |-> channel_id, null |-> FALSE ]

\* "quotedMessage": null
NullQuotedMessage ==
    [ messageId |-> Null, messageAuthorId |-> Null, messageChannelId |-> Null,
      null |-> TRUE ]

QuotedMessages ==
    { QuotedMessage(Null, Null, Null),
      QuotedMessage("message1", "user2", ChannelId),
      QuotedMessage("not-a-uuid", "user2", ChannelId),
      QuotedMessage("message1", "not-a-uuid", ChannelId),
      QuotedMessage("message1", "user2", "not-a-uuid") }

Arguments(chat_room_id, author_id, channel_id, text, content, quoted) ==
    [ chatRoomId |-> chat_room_id, messageAuthorId |-> author_id,
      messageChannelId |-> channel_id, messageText |-> text,
      messageContent |-> content, quotedMessage |-> quoted ]

NoArguments ==
    Arguments(Null, Null, Null, Null, NoContent, QuotedMessage(Null, Null, Null))

\* The arguments of the invocations: every text and content with the
\* identifiers of the operator's message to room1, and that message with a
\* text, or a text and a document, and one identifier missing or malformed.
InputArguments ==
    { Arguments("room1", OperatorUserId, ChannelId, t, m, q) :
        t \in {"hi", Null},
        m \in MessageContents,
        q \in { QuotedMessage(Null, Null, Null), NullQuotedMessage,
                QuotedMessage("message1", "user2", ChannelId) } }
    \cup
    { Arguments(i[1], i[2], i[3], "hi", m, i[4]) :
        i \in ( { << r, OperatorUserId, ChannelId, QuotedMessage(Null, Null, Null) >> :
                    r \in {"not-a-uuid", Null} }
                \cup { << "room1", a, ChannelId, QuotedMessage(Null, Null, Null) >> :
                         a \in {"not-a-uuid", Null} }
                \cup { << "room1", OperatorUserId, c, QuotedMessage(Null, Null, Null) >> :
                         c \in {"not-a-uuid", Null} }
                \cup { << "room1", OperatorUserId, ChannelId, q >> : q \in QuotedMessages } ),
        m \in { NoContent, Content(<< File("document", StoredUrl(1)) >>) } }

\* The locals of the relay invocation.  check and connection are the two
\* threads of run_multithreading_tasks: "idle", "running", "put" (the result
\* is in the queue) or "raised" (the thread ended by an exception); caption
\* is the caption parameter of the send call.
EmptyRelayFrame ==
    [ check |-> "idle", connection |-> "idle",
      telegram_chat_id |-> << >>, telegram_bot_token |-> Null,
      files |-> << >>, presigned |-> << >>, sent |-> << >>, caption |-> Null,
      message_id |-> Null, statusCode |-> Null ]

\* ------------------------------------------------------------------------
\* Message objects handed to form_message_format.
\* ------------------------------------------------------------------------
\* The media fields form_message_format reads, in the order the
\* specification ranks them.
MediaFields ==
    << "contact", "location", "document", "animation", "video", "voice",
       "audio", "sticker", "photo" >>

\* file_name of a document, video or audio, as tokens ("." is the
\* separator rsplit looks for); << >> when the key is absent.
FileNames ==
    { << "report", ".", "PDF" >>, << "archive", ".", "tar", ".", "gz" >>,
      << "Makefile" >>, << >> }

\* message: text and caption, the set of media fields that are not None,
\* sticker["is_animated"], and the file_name of the document, video and
\* audio objects.
Payload(text, caption, fields, is_animated, file_name) ==
    [ text |-> text, caption |-> caption, fields |-> fields,
      is_animated |-> is_animated, file_name |-> file_name ]

NoPayload == Payload(Null, Null, {}, FALSE, << >>)

Payloads ==
    { Payload(text, caption, fields, is_animated, file_name) :
        text \in {Null, "hello"}, caption \in {Null, "look"},
        fields \in SUBSET { MediaFields[i] : i \in 1..Len(MediaFields) },
        is_animated \in BOOLEAN, file_name \in FileNames }

\* What form_message_format has produced: outcome is "idle", "pending",
\* "returned", "raised" or "upload_failed"; content is << >> for None.
Formatted(outcome, text, content) ==
    [ outcome |-> outcome, text |-> text, content |-> content ]

\* ------------------------------------------------------------------------
\* The mutation arguments of send_notification_to_telegram.
\* ------------------------------------------------------------------------
\* body["arguments"]["input"]: Null stands for a key that is absent.
Notification(chat_room_id, notification_description) ==
    [ chatRoomId |-> chat_room_id, notificationDescription |-> notification_description ]

NoNotification == Notification(Null, Null)

Notifications ==
    { Notification(c, d) : c \in {"room1", "room9", "not-a-uuid", Null},
                           d \in {"closed", Null} }

EmptyNotificationFrame ==
    [ telegram_chat_id |-> << >>, telegram_bot_token |-> Null,
      chat_id |-> << >>, text |-> << >>, statusCode |-> Null ]

\* No webhook invocation has arrived yet.
WebhookIdle ==
    /\ POSTGRESQL_CONNECTION = [ w \in Workers |-> Null ]
    /\ pc = [ w \in Workers |-> "idle" ]
    /\ frame = [ w \in Workers |-> EmptyFrame ]
    /\ calls = [ w \in Workers |-> << >> ]
    /\ previous = [ w \in Workers |-> EmptyPrevious ]

\* No relay invocation has arrived yet.
RelayIdle ==
    /\ relay_connection = Null
    /\ input_arguments = NoArguments
    /\ relay_pc = "idle"
    /\ relay_frame = EmptyRelayFrame
    /\ relay_calls = << >>

\* form_message_format is not being applied.
FormatIdle ==
    /\ payload = NoPayload
    /\ formatted = Formatted("idle", Null, << >>)

\* No notification invocation has arrived yet.
NotificationIdle ==
    /\ notification_connection = Null
    /\ notification_arguments = NoNotification
    /\ notification_pc = "idle"
    /\ notification_frame = EmptyNotificationFrame
    /\ notification_calls = << >>

Init ==
    /\ \E status \in InitialStatuses : InitStore(status)
    /\ WebhookIdle
    /\ requests = 0
    /\ outages = 0
    /\ RelayIdle
    /\ FormatIdle
    /\ NotificationIdle

\* ------------------------------------------------------------------------
\* Bookkeeping of one invocation.
\* ------------------------------------------------------------------------
Call(name, arg) == [ call |-> name, arg |-> arg ]

\* The invocation of worker w issues the collaborator call `name`.
Issue(w, name, arg) == calls' = [ calls EXCEPT ![w] = Append(@, Call(name, arg)) ]

\* The call fails and the handler stays at it, to attempt it again.
RaiseAndRetry(w) ==
    /\ pc' = pc
    /\ frame' = frame

\* The call fails (network error, HTTP error status, SQL error): the handler
\* logs and re-raises, and the invocation ends with the exception.
Raise(w) ==
    /\ pc' = [ pc EXCEPT ![w] = "raised" ]
    /\ frame' = [ frame EXCEPT ![w].statusCode = "error" ]

Outage(w) ==
    /\ outages < MaxOutages
    /\ outages' = outages + 1
    /\ Raise(w)

\* The return without a status code.
ReturnWithoutStatus(f) == f

\* return {"statusCode": 200}
Return200(f) == [ f EXCEPT !.statusCode = "200" ]

\* ------------------------------------------------------------------------
\* lambda_handler of send_message_from_telegram, up to the room lookup.
\* ------------------------------------------------------------------------
\* The conversation and room resolved by the invocation that just ended on
\* the worker (kept from the one before when it resolved none).
Resolved(w) ==
    IF frame[w].chat_room_id # Null
    THEN [ telegram_chat_id |-> FormatTelegramChatId(frame[w].business_account,
                                                     frame[w].telegram_chat_id),
           chat_room_id |-> frame[w].chat_room_id ]
    ELSE previous[w]

\* A connection created for every invocation, whatever the cache holds.
RecreatePostgresqlConnection(w) ==
    /\ calls' = [ calls EXCEPT ![w] = << Call("create_postgresql_connection", Null) >> ]
    /\ POSTGRESQL_CONNECTION' = [ POSTGRESQL_CONNECTION EXCEPT ![w] = "open" ]

\* reuse_or_recreate_postgresql_connection: the cached handle is reused; an
\* empty cache is filled by one create_postgresql_connection call.
ReuseOrRecreatePostgresqlConnection(w) ==
    IF POSTGRESQL_CONNECTION[w] # Null
    THEN /\ calls' = [ calls EXCEPT ![w] = << >> ]
         /\ UNCHANGED POSTGRESQL_CONNECTION
    ELSE /\ calls' = [ calls EXCEPT ![w] = << Call("create_postgresql_connection", Null) >> ]
         /\ POSTGRESQL_CONNECTION' = [ POSTGRESQL_CONNECTION EXCEPT ![w] = "open" ]

\* A webhook invocation arrives at a worker that is not running one: the
\* body is parsed, the business account and the chat id are read and the
\* connection is resolved.
Begin(w) ==
    /\ pc[w] \in {"idle", "returned", "raised"}
    /\ requests < MaxRequests
    /\ requests' = requests + 1
    /\ previous' = [ previous EXCEPT ![w] = Resolved(w) ]
    /\ \E b \in BusinessAccounts, c \in ChatIds, s \in Senders, m \in Messages :
          frame' = [ frame EXCEPT ![w] =
                       [ EmptyFrame EXCEPT !.business_account = b,
                                           !.telegram_chat_id = c,
                                           !.username = s.username,
                                           !.is_bot = s.is_bot,
                                           !.message = m ] ]
    /\ ReuseOrRecreatePostgresqlConnection(w)
    /\ pc' = [ pc EXCEPT ![w] = "get_aggregated_data" ]
    /\ UNCHANGED << store, outages, relay, format, notification >>

\* The same arrival when create_postgresql_connection fails: the cache stays
\* empty and the invocation ends with the exception.
BeginWithoutConnection(w) ==
    /\ pc[w] \in {"idle", "returned", "raised"}
    /\ requests < MaxRequests
    /\ requests' = requests + 1
    /\ POSTGRESQL_CONNECTION[w] = Null
    /\ outages < MaxOutages
    /\ outages' = outages + 1
    /\ previous' = [ previous EXCEPT ![w] = Resolved(w) ]
    /\ \E b \in BusinessAccounts, c \in ChatIds, s \in Senders, m \in Messages :
          frame' = [ frame EXCEPT ![w] =
                       [ EmptyFrame EXCEPT !.business_account = b,
                                           !.telegram_chat_id = c,
                                           !.username = s.username,
                                           !.is_bot = s.is_bot,
                                           !.message = m,
                                           !.statusCode = "error" ] ]
    /\ calls' = [ calls EXCEPT ![w] = << Call("create_postgresql_connection", Null) >> ]
    /\ pc' = [ pc EXCEPT ![w] = "raised" ]
    /\ UNCHANGED << store, POSTGRESQL_CONNECTION, relay, format, notification >>

\* The body has no "message" object: nothing is done and 200 is returned.
BeginWithoutMessage(w) ==
    /\ pc[w] \in {"idle", "returned", "raised"}
    /\ requests < MaxRequests
    /\ requests' = requests + 1
    /\ previous' = [ previous EXCEPT ![w] = Resolved(w) ]
    /\ frame' = [ frame EXCEPT ![w] = Return200(EmptyFrame) ]
    /\ calls' = [ calls EXCEPT ![w] = << >> ]
    /\ pc' = [ pc EXCEPT ![w] = "returned" ]
    /\ UNCHANGED << store, POSTGRESQL_CONNECTION, outages, relay, format, notification >>

\* The rows of the room lookup: telegram_chat_rooms joined with chat_rooms,
\* the membership rows and users, filtered to client-kind members.
\* The lookup with only the second alternative of its client filter.
AggregatedRowsOfUnidentified(telegram_chat_id) ==
    { [ chat_room_id |-> x[2].chat_room_id, channel_id |-> x[2].channel_id,
        chat_room_status |-> x[2].chat_room_status, client_id |-> x[4].user_id ] :
        x \in { y \in telegram_chat_rooms \X chat_rooms \X relationship \X users :
                  /\ y[1].telegram_chat_id = telegram_chat_id
                  /\ y[1].chat_room_id = y[2].chat_room_id
                  /\ y[2].chat_room_id = y[3].chat_room_id
                  /\ y[3].user_id = y[4].user_id
                  /\ y[4].internal_user_id = Null /\ y[4].unidentified_user_id # Null } }

AggregatedRows(telegram_chat_id) ==
    { [ chat_room_id |-> x[2].chat_room_id, channel_id |-> x[2].channel_id,
        chat_room_status |-> x[2].chat_room_status, client_id |-> x[4].user_id ] :
        x \in { y \in telegram_chat_rooms \X chat_rooms \X relationship \X users :
                  /\ y[1].telegram_chat_id = telegram_chat_id
                  /\ y[1].chat_room_id = y[2].chat_room_id
                  /\ y[2].chat_room_id = y[3].chat_room_id
                  /\ y[3].user_id = y[4].user_id
                  /\ \/ y[4].internal_user_id = Null /\ y[4].identified_user_id # Null
                     \/ y[4].internal_user_id = Null /\ y[4].unidentified_user_id # Null } }

\* ------------------------------------------------------------------------
\* The continuation conditions and form_message_format.
\* ------------------------------------------------------------------------
\* message_contents = [contact, location, document, animation, video, voice,
\* audio, photo, sticker]; any(... is not None ...)
AnyMessageContent(message) == message.media # Null \/ message.sticker # Null

\* The chain without the /start branch.
ContinuationWithoutStart(message, chat_room_id) ==
    IF message.poll # Null THEN "polls_unavailable"
    ELSE IF message.sticker # Null
         THEN IF message.sticker = "animated" THEN "animated_stickers_unavailable"
              ELSE "nothing"
    ELSE IF chat_room_id = Null /\ AnyMessageContent(message) THEN "describe_in_text_first"
    ELSE "relay"

\* The chain without the branch for media on a conversation without a room.
ContinuationWithoutTextFirst(message, chat_room_id) ==
    IF message.text = "/start" THEN "greeting"
    ELSE IF message.poll # Null THEN "polls_unavailable"
    ELSE IF message.sticker # Null
         THEN IF message.sticker = "animated" THEN "animated_stickers_unavailable"
              ELSE "nothing"
    ELSE "relay"

\* The chain with the sticker branch testing the payload kind only after
\* the animated case, so that a static sticker is relayed.
ContinuationRelayingStickers(message, chat_room_id) ==
    IF message.text = "/start" THEN "greeting"
    ELSE IF message.poll # Null THEN "polls_unavailable"
    ELSE IF message.sticker = "animated" THEN "animated_stickers_unavailable"
    ELSE IF chat_room_id = Null /\ message.media # Null THEN "describe_in_text_first"
    ELSE "relay"

\* The if/elif chain that decides whether the business logic continues:
\* the canned reply to send, "nothing" (a branch that does nothing), or
\* "relay".
Continuation(message, chat_room_id) ==
    IF message.text = "/start" THEN "greeting"
    ELSE IF message.poll # Null THEN "polls_unavailable"
    ELSE IF message.sticker # Null
         THEN IF message.sticker = "animated" THEN "animated_stickers_unavailable"
              ELSE "nothing"
    ELSE IF chat_room_id = Null /\ AnyMessageContent(message) THEN "describe_in_text_first"
    ELSE "relay"

\* The message text lost.
MessageTextDropped(message) == Null

\* form_message_format: the message text.
MessageText(message) == message.text

\* form_message_format: the category of the one content item, << >> for None.
MessageContent(message) ==
    IF message.media = "contact" THEN << "contact" >>
    ELSE IF message.media = "location" THEN << "location" >>
    ELSE IF message.media = "document" THEN << "document" >>
    ELSE IF message.media = "animation" THEN << "gif" >>
    ELSE IF message.media = "video" THEN << "video" >>
    ELSE IF message.media = "voice" THEN << "audio" >>
    ELSE IF message.media = "audio" THEN << "audio" >>
    ELSE IF message.sticker # Null
         THEN IF message.sticker = "static" THEN << "sticker" >> ELSE << >>
    ELSE IF message.media = "photo" THEN << "image" >>
    ELSE << >>

\* form_message_format calls upload_file_to_s3_bucket for a file-bearing item.
NeedsUpload(message) ==
    /\ MessageContent(message) # << >>
    /\ MessageContent(message)[1] \notin {"contact", "location"}

\* The status check without the branch that creates the room.
AfterMessageFormatWithoutCreate(chat_room_status) ==
    IF chat_room_status = "completed" THEN "activate_closed_chat_room"
    ELSE "create_chat_room_message"

\* The status check without the branch that reopens a completed room.
AfterMessageFormatWithoutReopen(chat_room_status) ==
    IF chat_room_status = Null THEN "get_identified_user_data"
    ELSE "create_chat_room_message"

\* The status check reopening every room that is not pending.
AfterMessageFormatReopeningAccepted(chat_room_status) ==
    IF chat_room_status = Null THEN "get_identified_user_data"
    ELSE IF chat_room_status # "non_accepted" THEN "activate_closed_chat_room"
    ELSE "create_chat_room_message"

\* The check of the chat room status after the message is formed.
AfterMessageFormat(chat_room_status) ==
    IF chat_room_status = Null THEN "get_identified_user_data"
    ELSE IF chat_room_status = "completed" THEN "activate_closed_chat_room"
    ELSE "create_chat_room_message"

\* The local variables after get_telegram_bot_token: the continuation
\* conditions and, when the message carries no file, form_message_format.
Continue(f) ==
    LET c == Continuation(f.message, f.chat_room_id)
        g == [ f EXCEPT !.telegram_bot_token = BotToken ]
    IN  IF c = "nothing" THEN Return200(g)
        ELSE IF c # "relay" THEN [ g EXCEPT !.canned = c ]
        ELSE IF NeedsUpload(f.message)
             THEN [ g EXCEPT !.message_text = MessageText(f.message) ]
        ELSE [ g EXCEPT !.message_text = MessageText(f.message),
                        !.message_content = MessageContent(f.message) ]

\* The call the handler makes next.
ContinueAt(f) ==
    LET c == Continuation(f.message, f.chat_room_id)
    IN  IF c = "nothing" THEN "returned"
        ELSE IF c # "relay" THEN "send_message_text_to_telegram"
        ELSE IF NeedsUpload(f.message) THEN "upload_file_to_s3_bucket"
        ELSE AfterMessageFormat(f.chat_room_status)

\* last_message_content = json.dumps({"messageText": ..., "messageContent": ...})
LastMessageContent(f) == << f.message_text, f.message_content >>

\* The four assignments after get_aggregated_data: a row fills them, no row
\* leaves all four None.
Aggregated(f, row) ==
    [ f EXCEPT !.chat_room_id = row.chat_room_id,
               !.channel_id = row.channel_id,
               !.chat_room_status = row.chat_room_status,
               !.client_id = row.client_id ]

\* get_aggregated_data ("limit 1" without an order takes any of the rows),
\* get_telegram_bot_token (a read of data no handler changes), and the
\* continuation conditions.
GetAggregatedData(w) ==
    /\ pc[w] = "get_aggregated_data"
    /\ LET rows == AggregatedRows(FormatTelegramChatId(frame[w].business_account,
                                                       frame[w].telegram_chat_id))
           lookup == Call("get_aggregated_data", Null)
           token == Call("get_telegram_bot_token", Null)
       IN \/ /\ rows = {}
             /\ calls' = [ calls EXCEPT ![w] = @ \o << lookup, token >> ]
             /\ frame' = [ frame EXCEPT ![w] = Continue(@) ]
             /\ pc' = [ pc EXCEPT ![w] = ContinueAt(frame[w]) ]
             /\ UNCHANGED outages
          \/ /\ \E row \in rows :
                   /\ frame' = [ frame EXCEPT ![w] = Continue(Aggregated(@, row)) ]
                   /\ pc' = [ pc EXCEPT ![w] = ContinueAt(Aggregated(frame[w], row)) ]
             /\ calls' = [ calls EXCEPT ![w] = @ \o << lookup, token >> ]
             /\ UNCHANGED outages
          \/ /\ calls' = [ calls EXCEPT ![w] = @ \o << lookup >> ]
             /\ Outage(w)
          \/ /\ calls' = [ calls EXCEPT ![w] = @ \o << lookup, token >> ]
             /\ outages < MaxOutages
             /\ outages' = outages + 1
             /\ \/ rows = {} /\ frame' = [ frame EXCEPT ![w].statusCode = "error" ]
                \/ \E row \in rows :
                      frame' = [ frame EXCEPT ![w] =
                                   [ Aggregated(@, row) EXCEPT !.statusCode = "error" ] ]
             /\ pc' = [ pc EXCEPT ![w] = "raised" ]
    /\ UNCHANGED << store, POSTGRESQL_CONNECTION, previous, requests, relay, format, notification >>

\* send_message_text_to_telegram with one of the canned texts; the handler
\* then returns 200.
SendMessageTextToTelegram(w) ==
    /\ pc[w] = "send_message_text_to_telegram"
    /\ Issue(w, "sendMessage", frame[w].canned)
    /\ \/ /\ frame' = [ frame EXCEPT ![w] = Return200(@) ]
          /\ pc' = [ pc EXCEPT ![w] = "returned" ]
          /\ UNCHANGED outages
       \/ Outage(w)
    /\ UNCHANGED << store, POSTGRESQL_CONNECTION, previous, requests, relay, format, notification >>

\* upload_file_to_s3_bucket inside form_message_format: getFile, the file
\* download, the presigned upload under chat_rooms/{chat_room_id}/{file_name}.
UploadFileToS3Bucket(w) ==
    /\ pc[w] = "upload_file_to_s3_bucket"
    /\ Issue(w, "upload_file_to_s3_bucket", frame[w].chat_room_id)
    /\ \/ /\ frame' = [ frame EXCEPT ![w].message_content = MessageContent(frame[w].message) ]
          /\ pc' = [ pc EXCEPT ![w] = AfterMessageFormat(frame[w].chat_room_status) ]
          /\ UNCHANGED outages
       \/ Outage(w)
    /\ UNCHANGED << store, POSTGRESQL_CONNECTION, previous, requests, relay, format, notification >>

\* ------------------------------------------------------------------------
\* Client resolution (the branch chat_room_status is None).
\* ------------------------------------------------------------------------
\* The identity lookup without the filter users.internal_user_id is null.
IdentifiedUserRowsWithOperators(telegram_username) ==
    UNION { IF \E u \in users : u.identified_user_id = i.identified_user_id
            THEN { u.user_id : u \in { v \in users :
                                         /\ v.identified_user_id = i.identified_user_id
                                         /\ v.unidentified_user_id = Null } }
            ELSE { Null } :
            i \in { j \in identified_users :
                      /\ telegram_username # Null
                      /\ j.telegram_username = telegram_username } }

\* The rows of get_identified_user_data: identified_users left-joined with
\* users; a profile without a users row yields one row whose user_id is NULL,
\* which passes both "is null" filters.  "= NULL" matches no row.
IdentifiedUserRows(telegram_username) ==
    UNION { IF \E u \in users : u.identified_user_id = i.identified_user_id
            THEN { u.user_id : u \in { v \in users :
                                         /\ v.identified_user_id = i.identified_user_id
                                         /\ v.internal_user_id = Null
                                         /\ v.unidentified_user_id = Null } }
            ELSE { Null } :
            i \in { j \in identified_users :
                      /\ telegram_username # Null
                      /\ j.telegram_username = telegram_username } }

\* get_identified_user_data: the user id of a row, None without a row.
GetIdentifiedUserData(w) ==
    /\ pc[w] = "get_identified_user_data"
    /\ Issue(w, "get_identified_user_data", frame[w].username)
    /\ LET rows == IdentifiedUserRows(frame[w].username)
       IN \/ /\ rows = {}
             /\ frame' = [ frame EXCEPT ![w].client_id = Null ]
             /\ pc' = [ pc EXCEPT ![w] = "create_identified_user" ]
             /\ UNCHANGED outages
          \/ /\ \E user_id \in rows :
                   /\ frame' = [ frame EXCEPT ![w].client_id = user_id ]
                   /\ pc' = [ pc EXCEPT ![w] =
                                IF user_id = Null THEN "create_identified_user"
                                ELSE "create_chat_room" ]
             /\ UNCHANGED outages
          \/ Outage(w)
    /\ UNCHANGED << store, POSTGRESQL_CONNECTION, previous, requests, relay, format, notification >>

\* The insert without the unique constraint on the username.
UsernameNeverConflicts(telegram_username) == FALSE

\* The unique constraint identified_users_telegram_username_key: NULL
\* usernames never conflict.
UsernameConflict(telegram_username) ==
    /\ telegram_username # Null
    /\ \E i \in identified_users : i.telegram_username = telegram_username

\* create_identified_user, first statement: insert into identified_users ...
\* on conflict do nothing returning identified_user_id.  On a conflict no row
\* is returned and cursor.fetchone()["identified_user_id"] raises.
CreateIdentifiedUser(w) ==
    /\ pc[w] = "create_identified_user"
    /\ Issue(w, "insert_identified_user", frame[w].username)
    /\ \/ /\ ~ UsernameConflict(frame[w].username)
          /\ LET id == NewId("identified", identified_users)
             IN /\ identified_users' = identified_users \cup
                       { [ identified_user_id |-> id,
                           telegram_username |-> frame[w].username ] }
                /\ frame' = [ frame EXCEPT ![w].identified_user_id = id ]
          /\ pc' = [ pc EXCEPT ![w] = "insert_user" ]
          /\ UNCHANGED outages
       \/ /\ UsernameConflict(frame[w].username)
          /\ Raise(w)
          /\ UNCHANGED << identified_users, outages >>
       \/ /\ Outage(w)
          /\ UNCHANGED identified_users
    /\ UNCHANGED << users, chat_rooms, telegram_chat_rooms, relationship,
                    non_accepted_queue, accepted_queue, completed_queue, chat_room_messages,
                    POSTGRESQL_CONNECTION, previous, requests, relay, format, notification >>

\* create_identified_user, second statement: insert into users(identified_user_id)
\* returning user_id.
InsertUser(w) ==
    /\ pc[w] = "insert_user"
    /\ Issue(w, "insert_user", frame[w].identified_user_id)
    /\ \/ /\ LET id == NewId("user", users)
             IN /\ users' = users \cup
                       { [ user_id |-> id,
                           identified_user_id |-> frame[w].identified_user_id,
                           internal_user_id |-> Null,
                           unidentified_user_id |-> Null ] }
                /\ frame' = [ frame EXCEPT ![w].client_id = id ]
          /\ pc' = [ pc EXCEPT ![w] = "create_chat_room" ]
          /\ UNCHANGED outages
       \/ /\ Outage(w)
          /\ UNCHANGED users
    /\ UNCHANGED << identified_users, chat_rooms, telegram_chat_rooms, relationship,
                    non_accepted_queue, accepted_queue, completed_queue, chat_room_messages,
                    POSTGRESQL_CONNECTION, previous, requests, relay, format, notification >>

\* ------------------------------------------------------------------------
\* The application core behind the GraphQL mutations (section 4.3 of the
\* specification) and the operator-side status changes.
\* ------------------------------------------------------------------------
SetStatus(rooms, chat_room_id, status) ==
    { IF r.chat_room_id = chat_room_id
      THEN [ r EXCEPT !.chat_room_status = status ] ELSE r : r \in rooms }

\* The status of a room in the table `rooms`, "absent" without a row.
StatusIn(rooms, chat_room_id) ==
    IF \E r \in rooms : r.chat_room_id = chat_room_id
    THEN (CHOOSE r \in rooms : r.chat_room_id = chat_room_id).chat_room_status
    ELSE "absent"

StatusOf(chat_room_id) == StatusIn(chat_rooms, chat_room_id)

\* The routing entries of a room, one per organization of `organizations`.
RoutingEntries(organizations, chat_room_id, client_id, last_message_content) ==
    { [ organization_id |-> o, channel_id |-> ChannelId,
        chat_room_id |-> chat_room_id, client_id |-> client_id,
        last_message_content |-> last_message_content ] : o \in organizations }

\* The uniqueness constraint on the link of a room to an external conversation.
TelegramChatIdLinked(telegram_chat_id) ==
    \E t \in telegram_chat_rooms : t.telegram_chat_id = telegram_chat_id

\* createChatRoom: the relational insert (room in status non_accepted, its
\* link to the conversation, the client's membership), then the fan-out to
\* the organizations in `routed`.
CoreCreateChatRoom(chat_room_id, telegram_chat_id, client_id, last_message_content, routed) ==
    /\ chat_rooms' = chat_rooms \cup
          { [ chat_room_id |-> chat_room_id, channel_id |-> ChannelId,
              chat_room_status |-> "non_accepted" ] }
    /\ telegram_chat_rooms' = telegram_chat_rooms \cup
          { [ chat_room_id |-> chat_room_id, telegram_chat_id |-> telegram_chat_id ] }
    /\ relationship' = relationship \cup
          { [ chat_room_id |-> chat_room_id, user_id |-> client_id ] }
    /\ non_accepted_queue' = non_accepted_queue \cup
          RoutingEntries(routed, chat_room_id, client_id, last_message_content)

\* activateClosedChatRoom on a completed room: back to non_accepted, into
\* every organization's pending queue, out of the completed index.
CoreActivateClosedChatRoom(chat_room_id, client_id, last_message_content) ==
    /\ chat_rooms' = SetStatus(chat_rooms, chat_room_id, "non_accepted")
    /\ non_accepted_queue' = non_accepted_queue \cup
          RoutingEntries(Organizations, chat_room_id, client_id, last_message_content)
    /\ completed_queue' = { e \in completed_queue : e.chat_room_id # chat_room_id }

\* The operator-kind members of a room.
OperatorsOf(chat_room_id) ==
    { u.user_id : u \in { v \in users :
                            /\ v.internal_user_id # Null
                            /\ [ chat_room_id |-> chat_room_id,
                                 user_id |-> v.user_id ] \in relationship } }

\* createChatRoomMessage appending the row as already acknowledged.
CoreCreateAcknowledgedMessage(message_id, chat_room_id, author_id, channel_id, text, content) ==
    /\ chat_room_messages' = chat_room_messages \cup
          { [ message_id |-> message_id, chat_room_id |-> chat_room_id,
              author_id |-> author_id, channel_id |-> channel_id,
              text |-> text, content |-> content, is_sent |-> TRUE ] }
    /\ UNCHANGED accepted_queue

\* createChatRoomMessage: one row appended to the message log, and the last
\* message of the room's summary row keyed by (operator, channel, room)
\* replaced; without such a row the update changes nothing.
CoreCreateChatRoomMessage(message_id, chat_room_id, author_id, channel_id, text, content) ==
    /\ chat_room_messages' = chat_room_messages \cup
          { [ message_id |-> message_id, chat_room_id |-> chat_room_id,
              author_id |-> author_id, channel_id |-> channel_id,
              text |-> text, content |-> content, is_sent |-> FALSE ] }
    /\ accepted_queue' =
          { IF /\ e.operator_id \in OperatorsOf(chat_room_id)
               /\ e.channel_id = channel_id
               /\ e.chat_room_id = chat_room_id
            THEN [ e EXCEPT !.last_message_content = << text, content >> ]
            ELSE e : e \in accepted_queue }

\* updateMessageData with MESSAGE_IS_SENT.
CoreUpdateMessageData(chat_room_id, message_id) ==
    chat_room_messages' =
        { IF m.message_id = message_id /\ m.chat_room_id = chat_room_id
          THEN [ m EXCEPT !.is_sent = TRUE ] ELSE m : m \in chat_room_messages }

\* An operator picks a pending room up from a queue entry: non_accepted ->
\* accepted, with the entry's last message as the room's summary.
OperatorAccepts ==
    \E r \in chat_rooms, q \in non_accepted_queue :
        /\ r.chat_room_status = "non_accepted"
        /\ q.chat_room_id = r.chat_room_id
        /\ chat_rooms' = SetStatus(chat_rooms, r.chat_room_id, "accepted")
        /\ non_accepted_queue' =
              { e \in non_accepted_queue : e.chat_room_id # r.chat_room_id }
        /\ accepted_queue' = accepted_queue \cup
              { [ operator_id |-> OperatorUserId, channel_id |-> r.channel_id,
                  chat_room_id |-> r.chat_room_id,
                  last_message_content |-> q.last_message_content ] }
        /\ relationship' = relationship \cup
              { [ chat_room_id |-> r.chat_room_id, user_id |-> OperatorUserId ] }
        /\ UNCHANGED << identified_users, users, telegram_chat_rooms, completed_queue,
                        chat_room_messages, webhook, requests, outages, relay, format, notification >>

\* The operator closes the room: accepted -> completed.
OperatorCompletes ==
    \E r \in chat_rooms :
        /\ r.chat_room_status = "accepted"
        /\ chat_rooms' = SetStatus(chat_rooms, r.chat_room_id, "completed")
        /\ accepted_queue' = { e \in accepted_queue : e.chat_room_id # r.chat_room_id }
        /\ completed_queue' = completed_queue \cup
              { [ operator_id |-> OperatorUserId, channel_id |-> r.channel_id,
                  chat_room_id |-> r.chat_room_id ] }
        /\ UNCHANGED << identified_users, users, telegram_chat_rooms, relationship,
                        non_accepted_queue, chat_room_messages, webhook, requests,
                        outages, relay, format, notification >>

\* ------------------------------------------------------------------------
\* lambda_handler of send_message_from_telegram, from the room creation on.
\* ------------------------------------------------------------------------
\* create_chat_room and the extraction of chatRoomId and channelId from its
\* answer.  An answer without data (the conversation is already linked, or
\* the fan-out broke off) makes the extraction raise.
CreateChatRoom(w) ==
    /\ pc[w] = "create_chat_room"
    /\ Issue(w, "createChatRoom", frame[w].client_id)
    /\ LET telegram_chat_id == FormatTelegramChatId(frame[w].business_account,
                                                    frame[w].telegram_chat_id)
           chat_room_id == NewId("room", chat_rooms)
       IN \/ /\ ~ TelegramChatIdLinked(telegram_chat_id)
             /\ CoreCreateChatRoom(chat_room_id, telegram_chat_id, frame[w].client_id,
                                   LastMessageContent(frame[w]), Organizations)
             /\ frame' = [ frame EXCEPT ![w].chat_room_id = chat_room_id,
                                        ![w].channel_id = ChannelId ]
             /\ pc' = [ pc EXCEPT ![w] = "create_chat_room_message" ]
             /\ UNCHANGED outages
          \/ /\ ~ TelegramChatIdLinked(telegram_chat_id)
             /\ \E routed \in (SUBSET Organizations) \ { Organizations } :
                   CoreCreateChatRoom(chat_room_id, telegram_chat_id, frame[w].client_id,
                                      LastMessageContent(frame[w]), routed)
             /\ Outage(w)
          \/ /\ TelegramChatIdLinked(telegram_chat_id)
             /\ Raise(w)
             /\ UNCHANGED << chat_rooms, telegram_chat_rooms, relationship,
                             non_accepted_queue, outages >>
          \/ /\ Outage(w)
             /\ UNCHANGED << chat_rooms, telegram_chat_rooms, relationship,
                             non_accepted_queue >>
    /\ UNCHANGED << identified_users, users, accepted_queue, completed_queue,
                    chat_room_messages, POSTGRESQL_CONNECTION, previous, requests,
                    relay, format, notification >>

\* activate_closed_chat_room.  The looked-up status may be stale: the core
\* either rejects the reopening of a room that is not completed or answers
\* it without changing the room.
ActivateClosedChatRoom(w) ==
    /\ pc[w] = "activate_closed_chat_room"
    /\ Issue(w, "activateClosedChatRoom", frame[w].chat_room_id)
    /\ \/ /\ StatusOf(frame[w].chat_room_id) = "completed"
          /\ CoreActivateClosedChatRoom(frame[w].chat_room_id, frame[w].client_id,
                                        LastMessageContent(frame[w]))
          /\ pc' = [ pc EXCEPT ![w] = "create_chat_room_message" ]
          /\ UNCHANGED << frame, outages >>
       \/ /\ StatusOf(frame[w].chat_room_id) # "completed"
          /\ pc' = [ pc EXCEPT ![w] = "create_chat_room_message" ]
          /\ UNCHANGED << chat_rooms, non_accepted_queue, completed_queue, frame, outages >>
       \/ /\ StatusOf(frame[w].chat_room_id) # "completed"
          /\ Raise(w)
          /\ UNCHANGED << chat_rooms, non_accepted_queue, completed_queue, outages >>
       \/ /\ Outage(w)
          /\ UNCHANGED << chat_rooms, non_accepted_queue, completed_queue >>
    /\ UNCHANGED << identified_users, users, telegram_chat_rooms, relationship,
                    accepted_queue, chat_room_messages, POSTGRESQL_CONNECTION, previous,
                    requests, relay, format, notification >>

\* create_chat_room_message and the extraction of messageId from its answer.
CreateChatRoomMessage(w) ==
    /\ pc[w] = "create_chat_room_message"
    /\ Issue(w, "createChatRoomMessage", frame[w].chat_room_id)
    /\ \/ /\ LET message_id == NewId("message", chat_room_messages)
             IN /\ CoreCreateChatRoomMessage(message_id, frame[w].chat_room_id,
                                             frame[w].client_id, frame[w].channel_id,
                                             frame[w].message_text,
                                             frame[w].message_content)
                /\ frame' = [ frame EXCEPT ![w].message_id = message_id ]
          /\ pc' = [ pc EXCEPT ![w] = "update_message_data" ]
          /\ UNCHANGED outages
       \/ /\ Outage(w)
          /\ UNCHANGED << chat_room_messages, accepted_queue >>
    /\ UNCHANGED << identified_users, users, chat_rooms, telegram_chat_rooms,
                    relationship, non_accepted_queue, completed_queue,
                    POSTGRESQL_CONNECTION, previous, requests, relay, format, notification >>

\* update_message_data (MESSAGE_IS_SENT), then return {"statusCode": 200}.
UpdateMessageData(w) ==
    /\ pc[w] = "update_message_data"
    /\ Issue(w, "updateMessageData", frame[w].message_id)
    /\ \/ /\ CoreUpdateMessageData(frame[w].chat_room_id, frame[w].message_id)
          /\ frame' = [ frame EXCEPT ![w] = Return200(@) ]
          /\ pc' = [ pc EXCEPT ![w] = "returned" ]
          /\ UNCHANGED outages
       \/ /\ Outage(w)
          /\ UNCHANGED chat_room_messages
    /\ UNCHANGED << identified_users, users, chat_rooms, telegram_chat_rooms,
                    relationship, non_accepted_queue, accepted_queue, completed_queue,
                    POSTGRESQL_CONNECTION, previous, requests, relay, format, notification >>

\* ------------------------------------------------------------------------
\* The specification: concurrent webhook invocations and the operator.
\* ------------------------------------------------------------------------
Next ==
    \/ \E w \in Workers : Begin(w)
    \/ \E w \in Workers : BeginWithoutConnection(w)
    \/ \E w \in Workers : BeginWithoutMessage(w)
    \/ \E w \in Workers : GetAggregatedData(w)
    \/ \E w \in Workers : SendMessageTextToTelegram(w)
    \/ \E w \in Workers : UploadFileToS3Bucket(w)
    \/ \E w \in Workers : GetIdentifiedUserData(w)
    \/ \E w \in Workers : CreateIdentifiedUser(w)
    \/ \E w \in Workers : InsertUser(w)
    \/ \E w \in Workers : CreateChatRoom(w)
    \/ \E w \in Workers : ActivateClosedChatRoom(w)
    \/ \E w \in Workers : CreateChatRoomMessage(w)
    \/ \E w \in Workers : UpdateMessageData(w)
    \/ OperatorAccepts
    \/ OperatorCompletes

Spec == Init /\ [][Next]_vars

\* ------------------------------------------------------------------------
\* lambda_handler of send_message_to_telegram: one worker relays the
\* operator's messages to the channel.
\* ------------------------------------------------------------------------
\* uuid.UUID(value) returns (it raises ValueError otherwise).
UuidAccepts(value) == value \in UuidStrings

\* check_input_arguments without the check of messageChannelId.
CheckInputArgumentsWithoutChannel(arguments) ==
    /\ arguments.chatRoomId # Null /\ UuidAccepts(arguments.chatRoomId)
    /\ arguments.messageAuthorId # Null /\ UuidAccepts(arguments.messageAuthorId)
    /\ ~ arguments.quotedMessage.null
    /\ \A id \in { arguments.quotedMessage.messageId,
                    arguments.quotedMessage.messageAuthorId,
                    arguments.quotedMessage.messageChannelId } :
          id = Null \/ UuidAccepts(id)

\* check_input_arguments puts its result into the queue (it raises in its
\* thread otherwise): the three required identifiers are present and UUIDs,
\* the identifiers of the quoted message are UUIDs when present.  Only the
\* KeyError of a missing key is caught: input_arguments["quotedMessage"]
\* that is None raises TypeError at ["messageId"].
CheckInputArguments(arguments) ==
    /\ arguments.chatRoomId # Null /\ UuidAccepts(arguments.chatRoomId)
    /\ arguments.messageAuthorId # Null /\ UuidAccepts(arguments.messageAuthorId)
    /\ arguments.messageChannelId # Null /\ UuidAccepts(arguments.messageChannelId)
    /\ ~ arguments.quotedMessage.null
    /\ \A id \in { arguments.quotedMessage.messageId,
                    arguments.quotedMessage.messageAuthorId,
                    arguments.quotedMessage.messageChannelId } :
          id = Null \/ UuidAccepts(id)

\* The fields of the token string s between the delimiters d.
RECURSIVE Fields(_, _)
Fields(s, d) ==
    IF \E i \in 1..Len(s) : s[i] = d
    THEN LET i == CHOOSE j \in 1..Len(s) :
                     s[j] = d /\ \A k \in 1..(j - 1) : s[k] # d
         IN  << SubSeq(s, 1, i - 1) >> \o Fields(SubSeq(s, i + 1, Len(s)), d)
    ELSE << s >>

\* split_part(s, d, n) of PostgreSQL: the n-th field, empty when there are
\* fewer fields.
SplitPart(s, d, n) ==
    IF n <= Len(Fields(s, d)) THEN Fields(s, d)[n] ELSE << >>

\* The channels table: the channel of the business account.
Channels == { [ channel_id |-> ChannelId, channel_technical_id |-> BotToken ] }

\* The lookup answering a row of NULLs for a room that does not exist.
RelayAggregatedRowsOrNulls(chat_room_id) ==
    { [ telegram_chat_id |-> << >>, telegram_bot_token |-> Null ] }

\* get_aggregated_data of the relay: chat_rooms left-joined with
\* telegram_chat_rooms and channels, for one chat room id; a side without a
\* match is NULL.
RelayAggregatedRows(chat_room_id) ==
    UNION { LET linked == { l \in telegram_chat_rooms : l.chat_room_id = r.chat_room_id }
                bots == { d \in Channels : d.channel_id = r.channel_id }
            IN { [ telegram_chat_id |-> t, telegram_bot_token |-> b ] :
                   t \in IF linked = {} THEN { << >> }
                         ELSE { SplitPart(l.telegram_chat_id, ":", 2) : l \in linked },
                   b \in IF bots = {} THEN { Null }
                         ELSE { d.channel_technical_id : d \in bots } } :
            r \in { q \in chat_rooms : q.chat_room_id = chat_room_id } }

\* file_url.split('/', 3)[-1]: what follows the third slash.
Key(file_url) ==
    IF Len(file_url) > 3 THEN SubSeq(file_url, 4, Len(file_url))
    ELSE << file_url[Len(file_url)] >>

\* The answer of the presigned-download endpoint of the file storage
\* service for a key: a time-limited signed URL.
PresignedUrl(key) == << "https:", "", "storage" >> \o key \o << "?signature" >>

\* The Bot API method for one file of a category, Null where the handler
\* has no branch for the category.
SendMethod(file_category) ==
    CASE file_category = "gif" -> "sendAnimation"
      [] file_category = "document" -> "sendDocument"
      [] file_category = "image" -> "sendPhoto"
      [] file_category = "video" -> "sendVideo"
      [] file_category = "audio" -> "sendAudio"
      [] OTHER -> Null

\* The Bot API method of the invocation, Null when it sends nothing.
DispatchMethod(message_text, message_content) ==
    IF ~ message_content.json
    THEN IF message_text # Null THEN "sendMessage" ELSE Null
    ELSE IF Len(message_content.files) = 1
         THEN SendMethod(message_content.files[1].category)
    ELSE IF 1 < Len(message_content.files) /\ Len(message_content.files) <= MaxMediaGroup
         THEN "sendMediaGroup"
    ELSE Null

\* The files whose URL the relay exchanges for a presigned one before the
\* send: the one document, image, video or audio, or every file of a group.
FilesToPresign(message_content) ==
    IF ~ message_content.json THEN << >>
    ELSE IF Len(message_content.files) = 1
         THEN IF message_content.files[1].category \in {"document", "image", "video", "audio"}
              THEN message_content.files ELSE << >>
    ELSE IF 1 < Len(message_content.files) /\ Len(message_content.files) <= MaxMediaGroup
         THEN message_content.files
    ELSE << >>

\* The URLs handed to the send call as they are: the one of a gif.
UrlsSentAsStored(message_content) ==
    IF /\ message_content.json
       /\ Len(message_content.files) = 1
       /\ message_content.files[1].category = "gif"
    THEN << message_content.files[1].url >>
    ELSE << >>

\* file["url"] raises KeyError: the one file, or the next file of a group,
\* has no "url" key.
UrlMissing(files) == files # << >> /\ files[1].url = << >>

\* The categories of the files, as the message log keeps the content.
Categories(message_content) ==
    [ i \in 1..Len(message_content.files) |-> message_content.files[i].category ]

\* An invocation arrives: run_multithreading_tasks starts
\* check_input_arguments and reuse_or_recreate_postgresql_connection in two
\* threads.
RelayBegin ==
    /\ relay_pc \in {"idle", "returned", "raised"}
    /\ requests < MaxRequests
    /\ requests' = requests + 1
    /\ \E arguments \in InputArguments : input_arguments' = arguments
    /\ relay_pc' = "run_multithreading_tasks"
    /\ relay_frame' = [ EmptyRelayFrame EXCEPT !.check = "running",
                                               !.connection = "running" ]
    /\ relay_calls' = << >>
    /\ UNCHANGED << store, webhook, outages, relay_connection, format, notification >>

\* The thread of check_input_arguments: it puts the arguments into the
\* queue, or ends by the exception it raises.
RelayCheckInputArguments ==
    /\ relay_pc = "run_multithreading_tasks"
    /\ relay_frame.check = "running"
    /\ relay_frame' = [ relay_frame EXCEPT
                          !.check = IF CheckInputArguments(input_arguments)
                                    THEN "put" ELSE "raised" ]
    /\ UNCHANGED << store, webhook, requests, outages, relay_connection,
                    input_arguments, relay_pc, relay_calls, format, notification >>

\* The thread of reuse_or_recreate_postgresql_connection: the cached handle,
\* or one create_postgresql_connection call, is put into the queue; when the
\* call fails the thread ends by the exception.
RelayReuseOrRecreatePostgresqlConnection ==
    /\ relay_pc = "run_multithreading_tasks"
    /\ relay_frame.connection = "running"
    /\ \/ /\ relay_connection # Null
          /\ relay_frame' = [ relay_frame EXCEPT !.connection = "put" ]
          /\ UNCHANGED << relay_connection, relay_calls, outages >>
       \/ /\ relay_connection = Null
          /\ relay_calls' = Append(relay_calls, "create_postgresql_connection")
          /\ \/ /\ relay_connection' = "open"
                /\ relay_frame' = [ relay_frame EXCEPT !.connection = "put" ]
                /\ UNCHANGED outages
             \/ /\ outages < MaxOutages
                /\ outages' = outages + 1
                /\ relay_frame' = [ relay_frame EXCEPT !.connection = "raised" ]
                /\ UNCHANGED relay_connection
    /\ UNCHANGED << store, webhook, requests, input_arguments, relay_pc, format, notification >>

\* thread.join() has returned for both threads.
Joined(f) == f.check # "running" /\ f.connection # "running"

\* The handler proceeding on the result of check_input_arguments alone.
ResultOfCheckOnly(f) == f.check = "put"

\* results_of_tasks["postgresql_connection"] and
\* results_of_tasks["input_arguments"] are both in the queue.
ResultsOfTasks(f) == f.connection = "put" /\ f.check = "put"

\* The join and the reading of the two results: a result missing from the
\* queue raises KeyError.
RelayJoin ==
    /\ relay_pc = "run_multithreading_tasks"
    /\ Joined(relay_frame)
    /\ IF ResultsOfTasks(relay_frame)
       THEN relay_pc' = "get_aggregated_data" /\ UNCHANGED relay_frame
       ELSE /\ relay_pc' = "raised"
            /\ relay_frame' = [ relay_frame EXCEPT !.statusCode = "error" ]
    /\ UNCHANGED << store, webhook, requests, outages, relay_connection,
                    input_arguments, relay_calls, format, notification >>

\* The failure swallowed: the handler goes on to its return of 200.
RelayReturnAfterFailure ==
    /\ relay_pc' = "returned"
    /\ relay_frame' = [ relay_frame EXCEPT !.statusCode = "200" ]

RelayRaise ==
    /\ relay_pc' = "raised"
    /\ relay_frame' = [ relay_frame EXCEPT !.statusCode = "error" ]

RelayOutage ==
    /\ outages < MaxOutages
    /\ outages' = outages + 1
    /\ RelayRaise

\* get_aggregated_data and the extraction of telegram_chat_id and
\* telegram_bot_token; without a row the extraction raises.
RelayGetAggregatedData ==
    /\ relay_pc = "get_aggregated_data"
    /\ relay_calls' = Append(relay_calls, "get_aggregated_data")
    /\ LET rows == RelayAggregatedRows(input_arguments.chatRoomId)
       IN \/ /\ rows = {}
             /\ RelayRaise
             /\ UNCHANGED outages
          \/ /\ \E row \in rows :
                   relay_frame' = [ relay_frame EXCEPT
                                      !.telegram_chat_id = row.telegram_chat_id,
                                      !.telegram_bot_token = row.telegram_bot_token ]
             /\ relay_pc' = "create_chat_room_message"
             /\ UNCHANGED outages
          \/ RelayOutage
    /\ UNCHANGED << store, webhook, requests, relay_connection, input_arguments, format, notification >>

\* The caption parameter of the send call: send_gif_to_telegram and
\* send_message_text_to_telegram take none; the other calls pass
\* message_text, which the request omits when it is None.
Caption(method, message_text) ==
    IF method \in {"sendDocument", "sendPhoto", "sendVideo", "sendAudio", "sendMediaGroup"}
    THEN message_text
    ELSE Null

\* The locals after create_chat_room_message returned: the files, the
\* first of which is about to be presigned or sent.
Dispatching(f, arguments, message_id) ==
    [ f EXCEPT !.message_id = message_id,
               !.files = IF UrlsSentAsStored(arguments.messageContent) # << >>
                         THEN arguments.messageContent.files
                         ELSE FilesToPresign(arguments.messageContent),
               !.statusCode =
                   IF DispatchMethod(arguments.messageText, arguments.messageContent) = Null
                   THEN "200" ELSE f.statusCode ]

\* The call the relay makes after create_chat_room_message.
DispatchAt(arguments) ==
    LET method == DispatchMethod(arguments.messageText, arguments.messageContent)
    IN  IF method = Null THEN "returned"
        ELSE IF FilesToPresign(arguments.messageContent) # << >>
             THEN "get_the_presigned_url"
        ELSE "send"

\* create_chat_room_message: the message is persisted through the core;
\* the handler then goes on to the dispatch, where reading the "url" of a
\* file that has none raises.
RelayCreateChatRoomMessage ==
    /\ relay_pc = "create_chat_room_message"
    /\ relay_calls' = Append(relay_calls, "createChatRoomMessage")
    /\ \/ /\ LET message_id == NewId("message", chat_room_messages)
                 g == Dispatching(relay_frame, input_arguments, message_id)
             IN /\ CoreCreateChatRoomMessage(message_id, input_arguments.chatRoomId,
                                             input_arguments.messageAuthorId,
                                             input_arguments.messageChannelId,
                                             input_arguments.messageText,
                                             Categories(input_arguments.messageContent))
                /\ IF DispatchAt(input_arguments) # "returned" /\ UrlMissing(g.files)
                   THEN /\ relay_frame' = [ g EXCEPT !.statusCode = "error" ]
                        /\ relay_pc' = "raised"
                   ELSE /\ relay_frame' = g
                        /\ relay_pc' = DispatchAt(input_arguments)
          /\ UNCHANGED outages
       \/ /\ RelayOutage
          /\ UNCHANGED << chat_room_messages, accepted_queue >>
    /\ UNCHANGED << identified_users, users, chat_rooms, telegram_chat_rooms,
                    relationship, non_accepted_queue, completed_queue, webhook,
                    requests, relay_connection, input_arguments, format, notification >>

\* get_the_presigned_url for the next file.
RelayGetThePresignedUrl ==
    /\ relay_pc = "get_the_presigned_url"
    /\ relay_calls' = Append(relay_calls, "get_presigned_url_to_download_file")
    /\ \/ /\ LET rest == Tail(relay_frame.files)
                 g == [ relay_frame EXCEPT
                          !.files = rest,
                          !.presigned = Append(@, PresignedUrl(Key(relay_frame.files[1].url))) ]
             IN IF UrlMissing(rest)
                THEN /\ relay_frame' = [ g EXCEPT !.statusCode = "error" ]
                     /\ relay_pc' = "raised"
                ELSE /\ relay_frame' = g
                     /\ relay_pc' = IF rest = << >> THEN "send" ELSE "get_the_presigned_url"
          /\ UNCHANGED outages
       \/ RelayOutage
    /\ UNCHANGED << store, webhook, requests, relay_connection, input_arguments, format, notification >>

\* A send call for each file of the content, one after the other.
AfterSendOfEachFile(log, arguments) ==
    IF Len(SelectSeq(log, LAMBDA c : c \notin {"create_postgresql_connection",
                                               "get_aggregated_data",
                                               "createChatRoomMessage",
                                               "get_presigned_url_to_download_file"}))
          < Len(arguments.messageContent.files)
    THEN "send" ELSE "returned"

\* Where the handler is after the send call of its branch: the branches
\* of the dispatch exclude each other and fall through to the return.
AfterSend(log, arguments) == "returned"

\* The one Bot API call of the invocation, with the URLs it passes; the
\* handler then returns 200.
RelaySendToTelegram ==
    /\ relay_pc = "send"
    /\ relay_calls' = Append(relay_calls,
                             DispatchMethod(input_arguments.messageText,
                                            input_arguments.messageContent))
    /\ \/ /\ relay_frame' =
                [ relay_frame EXCEPT
                    !.sent = IF relay_frame.presigned # << >> THEN relay_frame.presigned
                             ELSE [ i \in 1..Len(relay_frame.files) |-> relay_frame.files[i].url ],
                    !.caption = Caption(DispatchMethod(input_arguments.messageText,
                                                       input_arguments.messageContent),
                                        input_arguments.messageText),
                    !.statusCode = "200" ]
          /\ relay_pc' = AfterSend(relay_calls', input_arguments)
          /\ UNCHANGED outages
       \/ RelayOutage
    /\ UNCHANGED << store, webhook, requests, relay_connection, input_arguments, format, notification >>

RelayNext ==
    \/ RelayBegin
    \/ RelayCheckInputArguments
    \/ RelayReuseOrRecreatePostgresqlConnection
    \/ RelayJoin
    \/ RelayGetAggregatedData
    \/ RelayCreateChatRoomMessage
    \/ RelayGetThePresignedUrl
    \/ RelaySendToTelegram

RelaySpec == Init /\ [][RelayNext]_vars

\* ------------------------------------------------------------------------
\* lambda_handler of send_notification_to_telegram: one worker sends the
\* notifications of the core to the channel.
\* ------------------------------------------------------------------------
\* sys.exit(1): the invocation ends with the exit of the runtime process,
\* and the module state (the cached connection) goes with it.
NotificationExit ==
    /\ notification_pc' = "exited"
    /\ notification_connection' = Null
    /\ notification_frame' = [ notification_frame EXCEPT !.statusCode = "error" ]

\* An exception outside a try block (KeyError, TypeError).
NotificationRaise ==
    /\ notification_pc' = "raised"
    /\ notification_frame' = [ notification_frame EXCEPT !.statusCode = "error" ]

\* An invocation arrives: the body is parsed and the two arguments are
\* read by key (lines 35-39).
NotificationBegin ==
    /\ notification_pc \in {"idle", "returned", "raised", "exited"}
    /\ requests < MaxRequests
    /\ requests' = requests + 1
    /\ notification_calls' = << >>
    /\ \E arguments \in Notifications :
          /\ notification_arguments' = arguments
          /\ IF arguments.chatRoomId = Null \/ arguments.notificationDescription = Null
             THEN /\ notification_pc' = "raised"
                  /\ notification_frame' =
                        [ EmptyNotificationFrame EXCEPT !.statusCode = "error" ]
             ELSE /\ notification_pc' = "create_postgresql_connection"
                  /\ notification_frame' = EmptyNotificationFrame
    /\ UNCHANGED << store, webhook, outages, relay, format, notification_connection >>

\* The cached connection is reused; an empty cache is filled by one
\* create_postgresql_connection call (lines 42-54).
NotificationConnect ==
    /\ notification_pc = "create_postgresql_connection"
    /\ \/ /\ notification_connection # Null
          /\ notification_pc' = "select"
          /\ UNCHANGED << notification_connection, notification_frame,
                          notification_calls, outages >>
       \/ /\ notification_connection = Null
          /\ notification_calls' =
                Append(notification_calls, "create_postgresql_connection")
          /\ \/ /\ notification_connection' = "open"
                /\ notification_pc' = "select"
                /\ UNCHANGED << notification_frame, outages >>
             \/ /\ outages < MaxOutages
                /\ outages' = outages + 1
                /\ NotificationExit
    /\ UNCHANGED << store, webhook, requests, relay, format, notification_arguments >>

\* The rows of the select: chat_rooms left-joined with telegram_chat_rooms
\* and channels, for one chat_room_id; a side without a match is NULL.
NotificationRows(chat_room_id) ==
    UNION { LET linked == { l \in telegram_chat_rooms : l.chat_room_id = r.chat_room_id }
                bots == { d \in Channels : d.channel_id = r.channel_id }
            IN { [ telegram_chat_id |-> t, telegram_bot_token |-> b ] :
                   t \in IF linked = {} THEN { << >> }
                         ELSE { l.telegram_chat_id : l \in linked },
                   b \in IF bots = {} THEN { Null }
                         ELSE { d.channel_technical_id : d \in bots } } :
            r \in { q \in chat_rooms : q.chat_room_id = chat_room_id } }

\* cursor.execute of the select with the chat_room_id formatted into it, the
\* commit, and the reading of the row (lines 57-88): a chat_room_id that is
\* no UUID makes the statement fail, no row makes the reading raise.
NotificationSelect ==
    /\ notification_pc = "select"
    /\ notification_calls' = Append(notification_calls, "select_chat_room")
    /\ IF ~ UuidAccepts(notification_arguments.chatRoomId)
       THEN NotificationExit /\ UNCHANGED outages
       ELSE LET rows == NotificationRows(notification_arguments.chatRoomId)
            IN \/ /\ rows = {}
                  /\ NotificationRaise
                  /\ UNCHANGED << notification_connection, outages >>
               \/ /\ \E row \in rows :
                        notification_frame' =
                            [ notification_frame EXCEPT
                                !.telegram_chat_id = row.telegram_chat_id,
                                !.telegram_bot_token = row.telegram_bot_token ]
                  /\ notification_pc' = "send"
                  /\ UNCHANGED << notification_connection, outages >>
               \/ /\ outages < MaxOutages
                  /\ outages' = outages + 1
                  /\ NotificationExit
    /\ UNCHANGED << store, webhook, requests, relay, format, notification_arguments >>

\* "\U0001F916\U0001F4AC\n{0}".format(notification_description)
NotificationText(notification_description) == << "robot-speech", notification_description >>

\* sendMessage with the headed description as the text and the stored
\* telegram_chat_id as the chat_id (lines 90-106).
NotificationSend ==
    /\ notification_pc = "send"
    /\ notification_calls' = Append(notification_calls, "sendMessage")
    /\ LET params == [ notification_frame EXCEPT
                         !.chat_id = notification_frame.telegram_chat_id,
                         !.text = NotificationText(
                                     notification_arguments.notificationDescription) ]
       IN \/ /\ notification_frame' = [ params EXCEPT !.statusCode = "200" ]
             /\ notification_pc' = "returned"
             /\ UNCHANGED << notification_connection, outages >>
          \/ /\ outages < MaxOutages
             /\ outages' = outages + 1
             /\ notification_pc' = "exited"
             /\ notification_connection' = Null
             /\ notification_frame' = [ params EXCEPT !.statusCode = "error" ]
    /\ UNCHANGED << store, webhook, requests, relay, format, notification_arguments >>

NotificationNext ==
    \/ NotificationBegin
    \/ NotificationConnect
    \/ NotificationSelect
    \/ NotificationSend

\* ------------------------------------------------------------------------
\* The three handlers side by side.
\* ------------------------------------------------------------------------
\* One invocation of the webhook handler at a time, as one worker runs it.
WebhookNext ==
    \/ Begin("w1")
    \/ BeginWithoutConnection("w1")
    \/ BeginWithoutMessage("w1")
    \/ GetAggregatedData("w1")
    \/ SendMessageTextToTelegram("w1")
    \/ UploadFileToS3Bucket("w1")
    \/ GetIdentifiedUserData("w1")
    \/ CreateIdentifiedUser("w1")
    \/ InsertUser("w1")
    \/ CreateChatRoom("w1")
    \/ ActivateClosedChatRoom("w1")
    \/ CreateChatRoomMessage("w1")
    \/ UpdateMessageData("w1")

HandlersNext ==
    \/ WebhookNext
    \/ RelayNext
    \/ NotificationNext

HandlersSpec == Init /\ [][HandlersNext]_vars

\* ------------------------------------------------------------------------
\* The lookups over arbitrary contents of the tables.
\* ------------------------------------------------------------------------
\* Rows the users table may hold: a client behind the profile of alice, the
\* operator, an operator whose row also references the profile of alice,
\* and a client that is not identified.
UserRows ==
    { [ user_id |-> "client_a", identified_user_id |-> "identified1",
        internal_user_id |-> Null, unidentified_user_id |-> Null ],
      Operator,
      [ user_id |-> "operator_a", identified_user_id |-> "identified1",
        internal_user_id |-> "internal2", unidentified_user_id |-> Null ],
      [ user_id |-> "visitor", identified_user_id |-> Null,
        internal_user_id |-> Null, unidentified_user_id |-> "unidentified1" ] }

\* The store with room1 (absent, or linked to the first conversation) and
\* any profiles, users and membership rows of room1.
LookupStore(status, profiles, rows, members) ==
    /\ identified_users = profiles
    /\ users = rows
    /\ chat_rooms =
          IF status = "absent" THEN {}
          ELSE { [ chat_room_id |-> "room1", channel_id |-> ChannelId,
                   chat_room_status |-> status ] }
    /\ telegram_chat_rooms =
          IF status = "absent" THEN {}
          ELSE { [ chat_room_id |-> "room1", telegram_chat_id |-> FirstChat ] }
    /\ relationship =
          IF status = "absent" THEN {}
          ELSE { [ chat_room_id |-> "room1", user_id |-> u.user_id ] : u \in members }
    /\ non_accepted_queue =
          IF status = "non_accepted"
          THEN { [ organization_id |-> o, channel_id |-> ChannelId,
                   chat_room_id |-> "room1", client_id |-> "client_a",
                   last_message_content |-> << "hello", << >> >> ] : o \in Organizations }
          ELSE {}
    /\ accepted_queue =
          IF status = "accepted"
          THEN { [ operator_id |-> OperatorUserId, channel_id |-> ChannelId,
                   chat_room_id |-> "room1",
                   last_message_content |-> << "hello", << >> >> ] }
          ELSE {}
    /\ completed_queue =
          IF status = "completed"
          THEN { [ operator_id |-> OperatorUserId, channel_id |-> ChannelId,
                   chat_room_id |-> "room1" ] }
          ELSE {}
    /\ chat_room_messages = {}

\* One webhook invocation is about to arrive, whatever the tables hold.
LookupInit ==
    /\ \E status \in InitialStatuses,
          profiles \in SUBSET { [ identified_user_id |-> "identified1",
                                  telegram_username |-> "alice" ] },
          rows \in SUBSET UserRows :
          \E members \in SUBSET rows : LookupStore(status, profiles, rows, members)
    /\ WebhookIdle
    /\ requests = MaxRequests - 1
    /\ outages = 0
    /\ RelayIdle
    /\ FormatIdle
    /\ NotificationIdle

LookupSpec == LookupInit /\ [][WebhookNext]_vars

\* ------------------------------------------------------------------------
\* form_message_format applied to a message object.
\* ------------------------------------------------------------------------
\* str.lower() on the tokens of the file names.
Lower(token) ==
    IF token = "PDF" THEN "pdf" ELSE token

\* file_name.rsplit('.', 1): whether the list has an element [1].
HasSeparator(file_name) == \E i \in 1..Len(file_name) : file_name[i] = "."

\* ".{0}".format(file_name.rsplit('.', 1)[1]).lower(): the tokens after the
\* last separator, lowered, behind a ".".
FileExtension(file_name) ==
    LET last == CHOOSE i \in 1..Len(file_name) :
                    /\ file_name[i] = "."
                    /\ \A k \in (i + 1)..Len(file_name) : file_name[k] # "."
    IN << "." >> \o [ k \in 1..(Len(file_name) - last) |-> Lower(file_name[last + k]) ]

\* The chat_room_id handed to form_message_format.
FormatChatRoomId == "room1"

\* "chat_rooms/{0}/{1}".format(chat_room_id, file_name): the key under which
\* upload_file_to_s3_bucket stores the file; << >> when nothing is uploaded.
UploadKey(chat_room_id, file_name) ==
    IF file_name = << >> THEN << >>
    ELSE << "chat_rooms", "/", chat_room_id, "/" >> \o file_name

\* One dictionary of message_content.  mimeType "declared" is the
\* mime_type of the payload object; file_name is the argument of the
\* upload_file_to_s3_bucket call that gives the url (<< >> without a call).
Item(category, fileName, fileExtension, mimeType, file_name) ==
    [ category |-> category, fileName |-> fileName,
      fileExtension |-> fileExtension, mimeType |-> mimeType,
      key |-> UploadKey(FormatChatRoomId, file_name) ]

\* "{0}.ext".format(file_unique_id)
UniqueName(extension) == << "unique", ".", extension >>

\* An item named after the file_name of the payload object: KeyError
\* without the key, IndexError without a separator.
NamedItem(category, message, message_text) ==
    IF message.file_name = << >> \/ ~ HasSeparator(message.file_name)
    THEN Formatted("raised", Null, << >>)
    ELSE Formatted("returned", message_text,
                   << Item(category, message.file_name,
                           FileExtension(message.file_name), "declared",
                           message.file_name) >>)

\* The message text: text, else caption (lines 911-917).
FormatText(message) ==
    IF message.text # Null THEN message.text ELSE message.caption

\* form_message_format with every upload answered: the if/elif chain of
\* lines 919-1073.
FormMessageFormat(message) ==
    LET set(field) == field \in message.fields
        message_text == FormatText(message)
        one(item) == Formatted("returned", message_text, << item >>)
    IN IF set("contact") THEN one(Item("contact", << >>, << >>, Null, << >>))
       ELSE IF set("location") THEN one(Item("location", << >>, << >>, Null, << >>))
       ELSE IF set("document") /\ ~ set("animation")
            THEN NamedItem("document", message, message_text)
       ELSE IF set("animation") /\ set("document")
            THEN one(Item("gif", UniqueName("mp4"), << ".", "mp4" >>, "declared",
                          UniqueName("mp4")))
       ELSE IF set("video") THEN NamedItem("video", message, message_text)
       ELSE IF set("voice")
            THEN one(Item("audio", UniqueName("ogg"), << ".", "ogg" >>, "declared",
                          UniqueName("ogg")))
       ELSE IF set("audio") THEN NamedItem("audio", message, message_text)
       ELSE IF set("sticker")
            THEN IF ~ message.is_animated
                 THEN one(Item("sticker", UniqueName("webp"), << ".", "webp" >>,
                               "image/webp", UniqueName("webp")))
                 ELSE Formatted("returned", message_text, << >>)
       ELSE IF set("photo")
            THEN one(Item("image", UniqueName("jpeg"), << ".", "jpeg" >>, "image/jpeg",
                          UniqueName("jpeg")))
       ELSE Formatted("returned", message_text, << >>)

\* The chain reaches a call of upload_file_to_s3_bucket.
Uploads(message) ==
    /\ FormMessageFormat(message).outcome = "returned"
    /\ FormMessageFormat(message).content # << >>
    /\ FormMessageFormat(message).content[1].category \notin {"contact", "location"}

\* form_message_format is about to be applied to a message object.
FormatInit ==
    /\ \E status \in InitialStatuses : InitStore(status)
    /\ WebhookIdle
    /\ requests = 0
    /\ outages = 0
    /\ RelayIdle
    /\ NotificationIdle
    /\ payload \in Payloads
    /\ formatted = Formatted("pending", Null, << >>)

\* form_message_format returns, or raises KeyError or IndexError.
ApplyFormMessageFormat ==
    /\ formatted.outcome = "pending"
    /\ formatted' = FormMessageFormat(payload)
    /\ UNCHANGED << store, webhook, requests, outages, relay, payload, notification >>

\* upload_file_to_s3_bucket raises: a request of it fails.
UploadFails ==
    /\ formatted.outcome = "pending"
    /\ Uploads(payload)
    /\ outages < MaxOutages
    /\ outages' = outages + 1
    /\ formatted' = Formatted("upload_failed", Null, << >>)
    /\ UNCHANGED << store, webhook, requests, relay, payload, notification >>

FormatNext ==
    \/ ApplyFormMessageFormat
    \/ UploadFails

FormatSpec == FormatInit /\ [][FormatNext]_vars

\* ------------------------------------------------------------------------
\* Vocabulary of the properties.
\* ------------------------------------------------------------------------
Ended(w) == pc[w] \in {"returned", "raised"}

\* The number of calls named `name` the current invocation of w has issued.
CallCount(w, name) ==
    Cardinality({ i \in 1..Len(calls[w]) : calls[w][i].call = name })

HasCall(w, name) == CallCount(w, name) > 0

\* The conversation of the current invocation of w.
ConversationOf(w) ==
    FormatTelegramChatId(frame[w].business_account, frame[w].telegram_chat_id)

\* The rooms linked to an external conversation.
RoomsOf(telegram_chat_id) ==
    { t.chat_room_id : t \in { l \in telegram_chat_rooms :
                                  l.telegram_chat_id = telegram_chat_id } }

\* The event of w is a text message other than the /start command.
IsTextEvent(w) ==
    /\ frame[w].message.text \notin {Null, "/start"}
    /\ frame[w].message.media = Null
    /\ frame[w].message.sticker = Null
    /\ frame[w].message.poll = Null

\* The lookup of the current invocation of w returned, and found no room.
LookedUp(w) == HasCall(w, "get_telegram_bot_token")
FoundNoRoom(w) == LookedUp(w) /\ frame[w].chat_room_status = Null

\* The calls that change the relational store, the message log, the queues
\* or the object storage.
MutatingCalls ==
    { "insert_identified_user", "insert_user", "createChatRoom",
      "activateClosedChatRoom", "createChatRoomMessage", "updateMessageData",
      "upload_file_to_s3_bucket" }

MutatingCallCount(w) ==
    Cardinality({ i \in 1..Len(calls[w]) : calls[w][i].call \in MutatingCalls })

\* ------------------------------------------------------------------------
\* Properties.
\* ------------------------------------------------------------------------
\* C1: when two invocations on different workers handle first-contact text
\* events of the same external conversation, both lookups found no room,
\* both invocations have ended and no collaborator outage occurred, exactly
\* one chat room is linked to that conversation.
C1_ExactlyOneRoomAfterRace ==
    \A w1 \in Workers, w2 \in Workers :
        ( /\ w1 # w2
          /\ Ended(w1) /\ Ended(w2)
          /\ IsTextEvent(w1) /\ IsTextEvent(w2)
          /\ ConversationOf(w1) = ConversationOf(w2)
          /\ FoundNoRoom(w1) /\ FoundNoRoom(w2)
          /\ outages = 0 )
        => Cardinality(RoomsOf(ConversationOf(w1))) = 1

\* Both invocations raced up to createChatRoom: one created the room and
\* returned, the other was refused and raised.
C1_Witness ==
    \E w1 \in Workers, w2 \in Workers :
        /\ w1 # w2
        /\ pc[w1] = "returned" /\ pc[w2] = "raised"
        /\ IsTextEvent(w1) /\ IsTextEvent(w2)
        /\ ConversationOf(w1) = ConversationOf(w2)
        /\ FoundNoRoom(w1) /\ FoundNoRoom(w2)
        /\ HasCall(w1, "createChatRoom") /\ HasCall(w2, "createChatRoom")
        /\ outages = 0
        /\ Cardinality(RoomsOf(ConversationOf(w1))) = 1

\* The client users of a username: the users rows of client kind that
\* reference a profile with that username.
ClientsOf(telegram_username) ==
    { u \in users :
        /\ u.internal_user_id = Null
        /\ \E i \in identified_users :
              /\ i.telegram_username = telegram_username
              /\ i.identified_user_id = u.identified_user_id }

\* C2: for every non-null username there is at all times at most one
\* identified-user record and at most one client user row.
C2_AtMostOneAccountPerUsername ==
    \A n \in Usernames \ { Null } :
        /\ Cardinality({ i \in identified_users : i.telegram_username = n }) <= 1
        /\ Cardinality(ClientsOf(n)) <= 1

\* Two invocations both found no user of the same username and both issued
\* the insert; one account exists.
C2_Witness ==
    \E w1 \in Workers, w2 \in Workers :
        /\ w1 # w2
        /\ frame[w1].username # Null
        /\ frame[w1].username = frame[w2].username
        /\ HasCall(w1, "insert_identified_user")
        /\ HasCall(w2, "insert_identified_user")
        /\ Ended(w1) /\ Ended(w2)
        /\ Cardinality(ClientsOf(frame[w1].username)) = 1

\* C3: when two invocations for the same username both found no user and
\* both issued the insert, then (without a collaborator outage) once both
\* have ended both hold the same, non-null client id.
C3_LoserContinuesWithWinnersId ==
    \A w1 \in Workers, w2 \in Workers :
        ( /\ w1 # w2
          /\ Ended(w1) /\ Ended(w2)
          /\ frame[w1].username # Null
          /\ frame[w1].username = frame[w2].username
          /\ HasCall(w1, "insert_identified_user")
          /\ HasCall(w2, "insert_identified_user")
          /\ outages = 0 )
        => /\ frame[w1].client_id # Null
           /\ frame[w1].client_id = frame[w2].client_id

\* The position of the first call named `name` of the current invocation of
\* w (0 when there is none).
FirstCall(w, name) ==
    IF HasCall(w, name)
    THEN CHOOSE i \in 1..Len(calls[w]) :
            /\ calls[w][i].call = name
            /\ \A j \in 1..(i - 1) : calls[w][j].call # name
    ELSE 0

\* A step of some invocation (every handler step issues or resets calls).
HandlerStep == calls' # calls

C4_CallsFollowLookup ==
    \A w \in Workers :
        /\ HasCall(w, "createChatRoom") => frame[w].chat_room_status = Null
        /\ HasCall(w, "activateClosedChatRoom") => frame[w].chat_room_status = "completed"
        /\ frame[w].chat_room_status \in {"non_accepted", "accepted"}
              => ~ HasCall(w, "createChatRoom") /\ ~ HasCall(w, "activateClosedChatRoom")

C4_HandlerEdges ==
    HandlerStep =>
        \A id \in { r.chat_room_id : r \in chat_rooms' } :
            StatusIn(chat_rooms', id) # StatusIn(chat_rooms, id)
               => << StatusIn(chat_rooms, id), StatusIn(chat_rooms', id) >> \in
                     { << "absent", "non_accepted" >>, << "completed", "non_accepted" >> }

\* C4: an invocation calls createChatRoom only when its lookup found no
\* room and activateClosedChatRoom only when the looked-up status is
\* completed (never on a looked-up status non_accepted or accepted), and
\* every status change made by a handler step is absent -> non_accepted or
\* completed -> non_accepted.
C4_OnlyCreateAndReopenEdges ==
    [] C4_CallsFollowLookup /\ [][C4_HandlerEdges]_vars

\* One invocation has reopened a completed room and returned.
C4_Witness ==
    \E w \in Workers :
        /\ pc[w] = "returned"
        /\ frame[w].chat_room_status = "completed"
        /\ HasCall(w, "activateClosedChatRoom")
        /\ StatusOf(frame[w].chat_room_id) = "non_accepted"

InCompletedQueue(queue, chat_room_id) ==
    \E e \in queue : e.chat_room_id = chat_room_id

C5_ReopenedBeforeRelay ==
    \A w \in Workers :
        ( frame[w].chat_room_status = "completed" /\ HasCall(w, "createChatRoomMessage") )
        => /\ HasCall(w, "activateClosedChatRoom")
           /\ FirstCall(w, "activateClosedChatRoom") < FirstCall(w, "createChatRoomMessage")

C5_ReopenStep ==
    \A w \in Workers :
        ( /\ frame[w].chat_room_status = "completed"
          /\ pc[w] \in {"activate_closed_chat_room", "create_chat_room_message",
                        "update_message_data"}
          /\ pc'[w] # pc[w] )
        => IF /\ pc[w] = "activate_closed_chat_room"
              /\ pc'[w] = "create_chat_room_message"
              /\ StatusOf(frame[w].chat_room_id) = "completed"
           THEN /\ StatusIn(chat_rooms', frame[w].chat_room_id) = "non_accepted"
                /\ ~ InCompletedQueue(completed_queue', frame[w].chat_room_id)
           ELSE UNCHANGED << chat_rooms, completed_queue >>

\* C5: an invocation that relays a message on a room it looked up as
\* completed reopens the room before it persists the message; the reopening
\* of a completed room leaves it in status non_accepted and without an entry
\* in the completed queue, and no later step of the invocation changes the
\* room or that queue.
C5_RelayOnCompletedReopens ==
    [] C5_ReopenedBeforeRelay /\ [][C5_ReopenStep]_vars

\* A message was relayed on a completed room; the room is non_accepted and
\* out of the completed queue when the invocation has returned.
C5_Witness ==
    \E w \in Workers :
        /\ pc[w] = "returned"
        /\ frame[w].chat_room_status = "completed"
        /\ HasCall(w, "createChatRoomMessage")
        /\ \E m \in chat_room_messages :
              m.message_id = frame[w].message_id /\ m.chat_room_id = frame[w].chat_room_id
        /\ StatusOf(frame[w].chat_room_id) = "non_accepted"
        /\ ~ InCompletedQueue(completed_queue, frame[w].chat_room_id)

C6_OneCreateCall ==
    \A w \in Workers :
        ( pc[w] = "returned" /\ IsTextEvent(w) /\ FoundNoRoom(w) )
        => /\ CallCount(w, "createChatRoom") = 1
           /\ RoomsOf(ConversationOf(w)) = { frame[w].chat_room_id }

C6_CreateStep ==
    \A w \in Workers :
        ( pc[w] = "create_chat_room" /\ pc'[w] = "create_chat_room_message" )
        => LET created == chat_rooms' \ chat_rooms
               queued == non_accepted_queue' \ non_accepted_queue
           IN /\ Cardinality(created) = 1
              /\ \A r \in created :
                    /\ r.chat_room_status = "non_accepted"
                    /\ r.chat_room_id = frame'[w].chat_room_id
                    /\ [ chat_room_id |-> r.chat_room_id,
                         telegram_chat_id |-> ConversationOf(w) ] \in telegram_chat_rooms'
                    /\ \A o \in Organizations :
                          Cardinality({ e \in queued :
                                          /\ e.organization_id = o
                                          /\ e.chat_room_id = r.chat_room_id }) = 1
              /\ Cardinality(queued) = Cardinality(Organizations)

\* C6: an invocation that returns for a text event whose lookup found no
\* room has called createChatRoom exactly once and its room is the one room
\* of the conversation; the successful createChatRoom step adds exactly one
\* room, in status non_accepted and linked to the conversation, and exactly
\* one pending-queue entry per authorized organization.
C6_CreateRoutesToEveryOrganization ==
    [] C6_OneCreateCall /\ [][C6_CreateStep]_vars

\* A first-contact text event has returned and its room is still queued for
\* every organization.
C6_Witness ==
    \E w \in Workers :
        /\ pc[w] = "returned"
        /\ IsTextEvent(w) /\ FoundNoRoom(w)
        /\ HasCall(w, "createChatRoom")
        /\ StatusOf(frame[w].chat_room_id) = "non_accepted"
        /\ \A o \in Organizations :
              \E e \in non_accepted_queue :
                 e.organization_id = o /\ e.chat_room_id = frame[w].chat_room_id

\* C7: when the previous invocation on a worker resolved a room for a
\* conversation (by finding or by creating it), the lookup of the worker's
\* next invocation for the same conversation yields that same room id.
C7_SecondResolutionSameRoom ==
    \A w \in Workers :
        ( /\ LookedUp(w)
          /\ previous[w].chat_room_id # Null
          /\ previous[w].telegram_chat_id = ConversationOf(w) )
        => frame[w].chat_room_id = previous[w].chat_room_id

\* The previous invocation created the room of chat 200 (no initial store
\* has one) and the next lookup of the same worker found it.
C7_Witness ==
    \E w \in Workers :
        /\ LookedUp(w)
        /\ frame[w].telegram_chat_id = << "200" >>
        /\ previous[w].telegram_chat_id = ConversationOf(w)
        /\ previous[w].chat_room_id # Null
        /\ frame[w].chat_room_id = previous[w].chat_room_id
        /\ frame[w].chat_room_status # Null

\* The calls of an invocation that only sends the canned reply `text`.
OnlyCannedReply(w, text) ==
    /\ MutatingCallCount(w) = 0
    /\ CallCount(w, "sendMessage") = 1
    /\ \A i \in 1..Len(calls[w]) :
          calls[w][i].call = "sendMessage" => calls[w][i].arg = text

\* C8: an invocation that returns for the text "/start" on a conversation
\* whose lookup found no room has issued no user insert, no createChatRoom
\* and no createChatRoomMessage, and exactly one sendMessage, the greeting.
C8_StartOnNewConversation ==
    \A w \in Workers :
        ( pc[w] = "returned" /\ frame[w].message.text = "/start" /\ FoundNoRoom(w) )
        => OnlyCannedReply(w, "greeting")

\* "/start" arrived for chat 200, which has no room, and the invocation has
\* returned; no room of the conversation exists.
C8_Witness ==
    \E w \in Workers :
        /\ pc[w] = "returned"
        /\ frame[w].message.text = "/start"
        /\ FoundNoRoom(w)
        /\ CallCount(w, "sendMessage") = 1
        /\ RoomsOf(ConversationOf(w)) = {}

\* C9: an invocation that returns for a photo on a conversation whose
\* lookup found no room has issued no upload, no user insert, no
\* createChatRoom and no createChatRoomMessage, and exactly one sendMessage,
\* the request to describe the issue in text first.
C9_PhotoOnNewConversation ==
    \A w \in Workers :
        ( pc[w] = "returned" /\ frame[w].message.media = "photo" /\ FoundNoRoom(w) )
        => OnlyCannedReply(w, "describe_in_text_first")

\* A photo arrived for a conversation without a room and the invocation has
\* returned after its one reply.
C9_Witness ==
    \E w \in Workers :
        /\ pc[w] = "returned"
        /\ frame[w].message.media = "photo"
        /\ FoundNoRoom(w)
        /\ CallCount(w, "sendMessage") = 1
        /\ RoomsOf(ConversationOf(w)) = {}

\* The event of w falls into a Skip branch: the /start command, a poll, a
\* sticker, or a media payload while the lookup found no room.
InSkipBranch(w) ==
    \/ frame[w].message.text = "/start"
    \/ frame[w].message.poll # Null
    \/ frame[w].message.sticker # Null
    \/ frame[w].message.media # Null /\ frame[w].chat_room_status = Null

C10_NoMutatingCall ==
    \A w \in Workers : InSkipBranch(w) => MutatingCallCount(w) = 0

C10_StoreUnchanged ==
    \A w \in Workers :
        ( /\ pc[w] \in {"get_aggregated_data", "send_message_text_to_telegram"}
          /\ InSkipBranch(w)
          /\ pc'[w] # pc[w] )
        => UNCHANGED store

\* C10: an invocation in a Skip branch (/start, poll, sticker, media on a
\* conversation without a room), whatever the status of the room, issues no
\* user insert, createChatRoom, activateClosedChatRoom,
\* createChatRoomMessage, updateMessageData or upload, and none of its steps
\* changes the stores.
C10_SkipBranchesMutateNothing ==
    [] C10_NoMutatingCall /\ [][C10_StoreUnchanged]_vars

\* A poll arrived for a conversation whose room is completed; the invocation
\* has returned and the room is still completed.
C10_Witness ==
    \E w \in Workers :
        /\ pc[w] = "returned"
        /\ frame[w].message.poll # Null
        /\ frame[w].chat_room_status = "completed"
        /\ StatusOf(frame[w].chat_room_id) = "completed"
        /\ CallCount(w, "sendMessage") = 1

\* C11: an invocation whose sender is flagged as a bot issues no user
\* insert, no createChatRoom, no activateClosedChatRoom, no
\* createChatRoomMessage, no updateMessageData and no upload, whatever its
\* payload and the status of the room.
C11_BotEventsAreSkipped ==
    \A w \in Workers : frame[w].is_bot => MutatingCallCount(w) = 0

\* The message row the current invocation of w has persisted.
PersistedBy(w) ==
    { m \in chat_room_messages :
        m.message_id = frame[w].message_id /\ m.chat_room_id = frame[w].chat_room_id }

\* The summary rows of a room in the table `queue`.
SummaryOf(queue, chat_room_id) == { e \in queue : e.chat_room_id = chat_room_id }

C12_OneMessageCall ==
    \A w \in Workers :
        ( pc[w] = "returned" /\ IsTextEvent(w) /\ frame[w].chat_room_status = "accepted" )
        => /\ CallCount(w, "createChatRoomMessage") = 1
           /\ CallCount(w, "updateMessageData") = 1
           /\ ~ HasCall(w, "createChatRoom")
           /\ ~ HasCall(w, "activateClosedChatRoom")
           /\ \E m \in PersistedBy(w) :
                 /\ PersistedBy(w) = { m }
                 /\ m.text = frame[w].message.text
                 /\ m.author_id = frame[w].client_id

\* The message rows a step appends to the log.
Appended ==
    { m \in chat_room_messages' :
        \A n \in chat_room_messages : n.message_id # m.message_id }

C12_AppendStep ==
    \A w \in Workers :
        ( /\ frame[w].chat_room_status = "accepted"
          /\ IsTextEvent(w)
          /\ pc[w] # pc'[w]
          /\ ~ Ended(w) )
        => /\ UNCHANGED chat_rooms
           /\ IF pc[w] = "create_chat_room_message" /\ pc'[w] = "update_message_data"
              THEN /\ Cardinality(Appended) = 1
                   /\ \A m \in Appended :
                         /\ m.chat_room_id = frame[w].chat_room_id
                         /\ m.text = frame[w].message.text
                   /\ StatusOf(frame[w].chat_room_id) = "accepted"
                         => /\ SummaryOf(accepted_queue', frame[w].chat_room_id) # {}
                            /\ \A e \in SummaryOf(accepted_queue', frame[w].chat_room_id) :
                                  /\ e.operator_id = OperatorUserId
                                  /\ e.channel_id = frame[w].channel_id
                                  /\ e.last_message_content =
                                        << frame[w].message.text, << >> >>
              ELSE /\ pc'[w] # "raised" => pc[w] # "create_chat_room_message"
                   /\ Appended = {}
                   /\ UNCHANGED accepted_queue

\* C12: an invocation that returns for a text event on a room it looked up
\* as accepted has issued exactly one createChatRoomMessage and one
\* updateMessageData and no createChatRoom or activateClosedChatRoom, and
\* has persisted exactly one message, with the event's text; its
\* createChatRoomMessage step appends exactly one message, to that room,
\* and, the room being accepted, leaves the room's summary row of (operator,
\* channel, room) with the new text as last message; no step of the
\* invocation changes a room status, and no other step of it appends to the
\* room or changes a summary.
C12_TextOnAcceptedRoom ==
    [] C12_OneMessageCall /\ [][C12_AppendStep]_vars

\* A contact, then a text arrived for an accepted room (the second and the
\* third message of the room); the later invocation has returned, the room
\* is still accepted and its summary shows the text, not the contact.
C12_Witness ==
    \E w \in Workers :
        /\ pc[w] = "returned"
        /\ IsTextEvent(w)
        /\ frame[w].chat_room_status = "accepted"
        /\ StatusOf(frame[w].chat_room_id) = "accepted"
        /\ frame[w].message_id = "message3"
        /\ PersistedBy(w) # {}
        /\ \E m \in chat_room_messages :
              /\ m.message_id = "message2"
              /\ m.chat_room_id = frame[w].chat_room_id
              /\ m.content = << "contact" >>
        /\ \E e \in SummaryOf(accepted_queue, frame[w].chat_room_id) :
              e.last_message_content = << frame[w].message.text, << >> >>

\* C17: every persisted message has a text or a content item, and an event
\* with neither (no field of the message object is one the handler knows)
\* leads to no createChatRoom and no createChatRoomMessage call.
C17_PersistedMessagesHaveTextOrContent ==
    /\ \A m \in chat_room_messages : m.text # Null \/ m.content # << >>
    /\ \A w \in Workers :
          ( LookedUp(w) /\ frame[w].message = NoMessage )
          => ~ HasCall(w, "createChatRoom") /\ ~ HasCall(w, "createChatRoomMessage")

\* The call named `first` of the current invocation of w precedes its call
\* named `second` (both were issued).
Precedes(w, first, second) ==
    /\ HasCall(w, first)
    /\ HasCall(w, second)
    /\ FirstCall(w, first) < FirstCall(w, second)

\* C18 as stated: in an invocation that relays a message,
\* createChatRoomMessage precedes the createChatRoom or
\* activateClosedChatRoom call, which precedes updateMessageData.
C18_PersistThenRoomThenAcknowledge ==
    \A w \in Workers :
        HasCall(w, "createChatRoomMessage")
        => /\ HasCall(w, "createChatRoom")
                 => Precedes(w, "createChatRoomMessage", "createChatRoom")
           /\ HasCall(w, "activateClosedChatRoom")
                 => Precedes(w, "createChatRoomMessage", "activateClosedChatRoom")
           /\ ( HasCall(w, "createChatRoom") /\ HasCall(w, "updateMessageData") )
                 => Precedes(w, "createChatRoom", "updateMessageData")
           /\ ( HasCall(w, "activateClosedChatRoom") /\ HasCall(w, "updateMessageData") )
                 => Precedes(w, "activateClosedChatRoom", "updateMessageData")

\* C18, amended: in an invocation that relays a message the room is created
\* (the lookup found none) or reopened (it was looked up as completed)
\* first, then the message is persisted by the one createChatRoomMessage
\* call, then the delivery is acknowledged by the one updateMessageData
\* call; an invocation that has persisted its message and returned has
\* acknowledged it.
C18_RoomThenPersistThenAcknowledge ==
    \A w \in Workers :
        /\ CallCount(w, "createChatRoomMessage") <= 1
        /\ CallCount(w, "updateMessageData") <= 1
        /\ HasCall(w, "createChatRoomMessage")
              => /\ frame[w].chat_room_status = Null
                       => Precedes(w, "createChatRoom", "createChatRoomMessage")
                 /\ frame[w].chat_room_status = "completed"
                       => Precedes(w, "activateClosedChatRoom", "createChatRoomMessage")
                 /\ pc[w] = "returned" => HasCall(w, "updateMessageData")
        /\ HasCall(w, "updateMessageData")
              => Precedes(w, "createChatRoomMessage", "updateMessageData")
        /\ ( HasCall(w, "createChatRoom") \/ HasCall(w, "activateClosedChatRoom") )
              => LookedUp(w)

\* A first-contact text was relayed: room created, message persisted,
\* delivery acknowledged, in that order, and the invocation has returned.
C18_Witness ==
    \E w \in Workers :
        /\ pc[w] = "returned"
        /\ IsTextEvent(w)
        /\ FoundNoRoom(w)
        /\ Precedes(w, "createChatRoom", "createChatRoomMessage")
        /\ Precedes(w, "createChatRoomMessage", "updateMessageData")
        /\ \E m \in PersistedBy(w) : m.is_sent

\* The Bot API calls of the relay invocation, in the order issued.
ChannelMethods ==
    {"sendMessage", "sendAnimation", "sendDocument", "sendPhoto", "sendVideo",
     "sendAudio", "sendMediaGroup"}

ChannelCalls == SelectSeq(relay_calls, LAMBDA c : c \in ChannelMethods)

\* N, the number of content items of the relayed message.
ContentItems == Len(input_arguments.messageContent.files)

\* C13: a relay invocation that has returned has issued, for N = 0 content
\* items, exactly one sendMessage; for N = 1, exactly one call of a
\* category-specific method; for 2 <= N <= 10, exactly one sendMediaGroup;
\* for N > 10, no Bot API call.
C13_DispatchBatching ==
    relay_pc = "returned"
    => /\ ContentItems = 0 => ChannelCalls = << "sendMessage" >>
       /\ ContentItems = 1
             => /\ Len(ChannelCalls) = 1
                /\ ChannelCalls[1] \in
                      {"sendAnimation", "sendDocument", "sendPhoto", "sendVideo", "sendAudio"}
       /\ ( 2 <= ContentItems /\ ContentItems <= MaxMediaGroup )
             => ChannelCalls = << "sendMediaGroup" >>
       /\ ContentItems > MaxMediaGroup => ChannelCalls = << >>

\* A URL that the presigned-download endpoint has answered.
IsPresigned(url) == url # << >> /\ url[Len(url)] = "?signature"

\* C14: every URL passed to a Bot API send call is a presigned URL.
C14_OnlySignedUrlsReachTheChannel ==
    \A i \in 1..Len(relay_frame.sent) : IsPresigned(relay_frame.sent[i])

\* C19: a relay invocation issues no createChatRoomMessage call and the
\* message log stays as it was when the invocation arrived.
C19_RelayPersistsNothing ==
    /\ [] ( \A i \in 1..Len(relay_calls) : relay_calls[i] # "createChatRoomMessage" )
    /\ [][chat_room_messages' = chat_room_messages]_vars

\* An identifier that is missing or no UUID, or present and no UUID.
MissingOrNoUuid(id) == id = Null \/ id \notin UuidStrings
PresentAndNoUuid(id) == id # Null /\ id \notin UuidStrings

\* The arguments the claim calls invalid.
InvalidArguments(arguments) ==
    \/ MissingOrNoUuid(arguments.chatRoomId)
    \/ MissingOrNoUuid(arguments.messageAuthorId)
    \/ MissingOrNoUuid(arguments.messageChannelId)
    \/ PresentAndNoUuid(arguments.quotedMessage.messageId)
    \/ PresentAndNoUuid(arguments.quotedMessage.messageAuthorId)
    \/ PresentAndNoUuid(arguments.quotedMessage.messageChannelId)

C20_RejectedBeforeAnyCall ==
    ( relay_pc # "idle" /\ InvalidArguments(input_arguments) )
    => /\ relay_pc \in {"run_multithreading_tasks", "raised"}
       /\ relay_pc = "raised" => relay_frame.statusCode = "error"
       /\ relay_frame.statusCode # "200"
       /\ \A i \in 1..Len(relay_calls) : relay_calls[i] = "create_postgresql_connection"

C20_RejectedStep ==
    InvalidArguments(input_arguments') => UNCHANGED store

\* C20: a relay invocation whose chatRoomId, messageAuthorId or
\* messageChannelId is missing or no UUID, or whose quoted-message
\* identifiers are present and no UUIDs, never gets past the join of its two
\* threads: it ends raised, without a success response and with no call but
\* the opening of the connection (no
\* get_aggregated_data, no createChatRoomMessage, no Bot API call); the step
\* that takes such arguments in, and every later step, leaves the stores
\* unchanged.
C20_InvalidArgumentsRejected ==
    [] C20_RejectedBeforeAnyCall /\ [][C20_RejectedStep]_vars

\* Arguments with a text, a document and a messageChannelId that is no UUID
\* arrived at a worker that opened its connection; the invocation raised.
C20_Witness ==
    /\ relay_pc = "raised"
    /\ input_arguments.messageChannelId = "not-a-uuid"
    /\ input_arguments.chatRoomId = "room1"
    /\ input_arguments.messageContent.json
    /\ relay_calls = << "create_postgresql_connection" >>
    /\ relay_connection = "open"
    /\ StatusOf("room1") = "accepted"

\* form_message_format has answered with every upload answered.
Classified == formatted.outcome \in {"returned", "raised"}

\* The category the specification gives the item of a media field.
CategoryOf(field) ==
    IF field = "animation" THEN "gif"
    ELSE IF field = "voice" THEN "audio"
    ELSE IF field = "photo" THEN "image"
    ELSE field

\* The extension and mime type the rule table fixes for a kind.
FixedRule(field, item) ==
    /\ field = "animation" => item.fileExtension = << ".", "mp4" >>
    /\ field = "voice" => item.fileExtension = << ".", "ogg" >>
    /\ field = "sticker"
          => item.fileExtension = << ".", "webp" >> /\ item.mimeType = "image/webp"
    /\ field = "photo"
          => item.fileExtension = << ".", "jpeg" >> /\ item.mimeType = "image/jpeg"

\* C15: for a message object with exactly one media field set (a sticker
\* that is not animated), form_message_format returns exactly one content
\* item, of the category of that field and with the extension and mime type
\* the rule table fixes for the kind.
C15_ClassificationTotalAndExclusive ==
    ( /\ Classified
      /\ Cardinality(payload.fields) = 1
      /\ ~ ( "sticker" \in payload.fields /\ payload.is_animated ) )
    => /\ formatted.outcome = "returned"
       /\ Len(formatted.content) = 1
       /\ \A field \in payload.fields :
             /\ formatted.content[1].category = CategoryOf(field)
             /\ FixedRule(field, formatted.content[1])

\* The set field that comes first in the order contact > location >
\* document > gif > video > voice > audio > sticker > photo.
HighestPriority(fields) ==
    MediaFields[CHOOSE i \in 1..Len(MediaFields) :
                   /\ MediaFields[i] \in fields
                   /\ \A k \in 1..(i - 1) : MediaFields[k] \notin fields]

\* C16: whenever form_message_format produces a content item for a message
\* object with a non-empty set of media fields, it is one item, of the
\* category of the set field that comes first in the priority order.
C16_HighestPriorityFieldWins ==
    ( /\ formatted.outcome = "returned"
      /\ payload.fields # {}
      /\ formatted.content # << >> )
    => /\ Len(formatted.content) = 1
       /\ formatted.content[1].category = CategoryOf(HighestPriority(payload.fields))

\* C21: a webhook invocation that has ended, with or without a failed
\* collaborator call, has returned statusCode 200.
C21_FailureStillReturns200 ==
    \A w \in Workers : Ended(w) => frame[w].statusCode = "200"

\* The invocation of w skips the business step: the body has no message
\* object (no conversation is read from it), or the looked-up event falls
\* into a Skip branch.
BusinessStepSkipped(w) ==
    \/ frame[w].telegram_chat_id = << >>
    \/ LookedUp(w) /\ InSkipBranch(w)

\* C22: while no collaborator call has failed, every ended invocation whose
\* business step is skipped (no message object, /start, poll, animated or
\* static sticker, media on a conversation without a room) has returned
\* statusCode 200.
C22_SkippedInvocationsReturn200 ==
    \A w \in Workers :
        ( Ended(w) /\ outages = 0 /\ BusinessStepSkipped(w) )
        => pc[w] = "returned" /\ frame[w].statusCode = "200"

\* A photo arrived for a conversation without a room: the canned reply was
\* sent, no call failed and the invocation returned 200.
C22_Witness ==
    \E w \in Workers :
        /\ pc[w] = "returned"
        /\ outages = 0
        /\ frame[w].message.media = "photo"
        /\ FoundNoRoom(w)
        /\ frame[w].canned = "describe_in_text_first"
        /\ HasCall(w, "sendMessage")
        /\ frame[w].statusCode = "200"

\* create_identified_user is between its two inserts for the profile.
BeingCreated(identified_user_id) ==
    \E w \in Workers :
        pc[w] = "insert_user" /\ frame[w].identified_user_id = identified_user_id

\* C25: once create_identified_user has ended, normally or with an error,
\* the profile row it inserted has a User row referencing it, and every
\* User row of a profile references an existing profile row.
C25_ClientCreationIsAtomic ==
    /\ \A i \in identified_users :
          \/ BeingCreated(i.identified_user_id)
          \/ \E u \in users : u.identified_user_id = i.identified_user_id
    /\ \A u \in users :
          u.identified_user_id # Null
          => \E i \in identified_users : i.identified_user_id = u.identified_user_id

\* The invocation of w is about to insert a profile whose username another
\* writer has inserted since its lookup: the insert will return no row.
LostRace(w) ==
    /\ pc[w] = "create_identified_user"
    /\ frame[w].username # Null
    /\ \E i \in identified_users : i.telegram_username = frame[w].username

\* C26 as stated: the step of an invocation that loses the race and whose
\* call does not fail leads to createChatRoom with a null client id.
C26_NullIdPropagated ==
    [][ \A w \in Workers :
          ( LostRace(w) /\ pc'[w] # pc[w] /\ outages' = outages )
          => pc'[w] = "create_chat_room" /\ frame'[w].client_id = Null ]_vars

C26_LostRaceStep ==
    \A w \in Workers :
        ( LostRace(w) /\ pc'[w] # pc[w] )
        => /\ pc'[w] = "raised"
           /\ frame'[w].statusCode = "error"
           /\ calls'[w][Len(calls'[w])].call = "insert_identified_user"
           /\ UNCHANGED store

C26_NoNullClient ==
    \A w \in Workers : \A i \in 1..Len(calls[w]) :
        calls[w][i].call = "createChatRoom" => calls[w][i].arg # Null

\* C26, amended: the step of an invocation that loses the race ends the
\* request with an error right after the insert, changing no store, and no
\* invocation ever calls createChatRoom with a null client id.
C26_LostRaceRaises ==
    [] C26_NoNullClient /\ [][C26_LostRaceStep]_vars

\* Two invocations for alice both found no user and both issued the insert;
\* the first created the client and its room, the second ended with the
\* error, without a failed collaborator call and without createChatRoom.
C26_Witness ==
    \E w1 \in Workers, w2 \in Workers :
        /\ w1 # w2
        /\ frame[w1].username = "alice" /\ frame[w2].username = "alice"
        /\ HasCall(w1, "insert_identified_user")
        /\ HasCall(w1, "createChatRoom")
        /\ pc[w2] = "raised"
        /\ calls[w2][Len(calls[w2])].call = "insert_identified_user"
        /\ outages = 0
        /\ ~ HasCall(w2, "createChatRoom")

\* The invocation of w ended with the failure of createChatRoomMessage or
\* updateMessageData, after its createChatRoom or activateClosedChatRoom
\* was answered.
FailedAfterRoomStep(w) ==
    /\ pc[w] = "raised"
    /\ calls[w][Len(calls[w])].call \in {"createChatRoomMessage", "updateMessageData"}
    /\ HasCall(w, "createChatRoom") \/ HasCall(w, "activateClosedChatRoom")

\* An operator has taken the room since: it is in the accepted or in the
\* completed index.
TakenByOperator(chat_room_id) ==
    \E e \in accepted_queue \cup completed_queue : e.chat_room_id = chat_room_id

C27_RoomAndUserKept ==
    \A w \in Workers :
        FailedAfterRoomStep(w)
        => /\ \E r \in chat_rooms : r.chat_room_id = frame[w].chat_room_id
           /\ \/ StatusOf(frame[w].chat_room_id) = "non_accepted"
              \/ TakenByOperator(frame[w].chat_room_id)
           /\ \E u \in users : u.user_id = frame[w].client_id
           /\ \A m \in chat_room_messages :
                 m.message_id = frame[w].message_id => ~ m.is_sent
           /\ frame[w].statusCode = "error"

C27_FailingStep ==
    \A w \in Workers :
        ( /\ pc[w] \in {"create_chat_room_message", "update_message_data"}
          /\ pc'[w] = "raised" )
        => UNCHANGED store

\* C27: when createChatRoomMessage or updateMessageData fails after
\* createChatRoom or activateClosedChatRoom was answered in the same
\* invocation, the failing step changes no store (nothing is undone), and at
\* the end the room exists, in status non_accepted unless an operator has
\* taken it since, the client's user row exists, and the message of the
\* event is absent or not acknowledged.
C27_NoRollbackAfterRoomStep ==
    [] C27_RoomAndUserKept /\ [][C27_FailingStep]_vars

\* A first-contact text created the user and the room, then
\* createChatRoomMessage failed: the room is non_accepted, the log is empty.
C27_Witness ==
    \E w \in Workers :
        /\ FailedAfterRoomStep(w)
        /\ HasCall(w, "insert_user")
        /\ HasCall(w, "createChatRoom")
        /\ calls[w][Len(calls[w])].call = "createChatRoomMessage"
        /\ StatusOf(frame[w].chat_room_id) = "non_accepted"
        /\ \E u \in users : u.user_id = frame[w].client_id
        /\ chat_room_messages = {}

\* The invocations of w1 and w2 carry the same event (a redelivery).
SameEvent(w1, w2) ==
    /\ frame[w1].business_account = frame[w2].business_account
    /\ frame[w1].telegram_chat_id = frame[w2].telegram_chat_id
    /\ frame[w1].username = frame[w2].username
    /\ frame[w1].is_bot = frame[w2].is_bot
    /\ frame[w1].message = frame[w2].message

\* The acknowledged message the invocation of w persisted.
MessageOf(w) ==
    { m \in chat_room_messages :
        /\ m.message_id = frame[w].message_id
        /\ m.chat_room_id = frame[w].chat_room_id
        /\ m.text = frame[w].message.text
        /\ m.is_sent }

\* C28: when the same text event has been processed twice and both
\* invocations have returned, each has persisted a Message of its own in the
\* one room of the conversation, and together they have issued at most one
\* createChatRoom call and at most one user insert.
C28_RedeliveryDuplicatesMessages ==
    \A w1 \in Workers, w2 \in Workers :
        ( /\ w1 # w2
          /\ pc[w1] = "returned" /\ pc[w2] = "returned"
          /\ IsTextEvent(w1)
          /\ SameEvent(w1, w2) )
        => /\ frame[w1].message_id # frame[w2].message_id
           /\ Cardinality(MessageOf(w1) \cup MessageOf(w2)) = 2
           /\ frame[w1].chat_room_id = frame[w2].chat_room_id
           /\ RoomsOf(ConversationOf(w1)) = { frame[w1].chat_room_id }
           /\ CallCount(w1, "createChatRoom") + CallCount(w2, "createChatRoom") <= 1
           /\ CallCount(w1, "insert_user") + CallCount(w2, "insert_user") <= 1
           /\ CallCount(w1, "insert_identified_user")
                 + CallCount(w2, "insert_identified_user") <= 1

\* The text "hello" of alice in chat 100 arrived twice at an empty store:
\* the first invocation created the user and the room, the second found the
\* room, and the log holds two messages.
C28_Witness ==
    \E w1 \in Workers, w2 \in Workers :
        /\ w1 # w2
        /\ pc[w1] = "returned" /\ pc[w2] = "returned"
        /\ IsTextEvent(w1)
        /\ SameEvent(w1, w2)
        /\ frame[w1].username = "alice"
        /\ HasCall(w1, "insert_user") /\ HasCall(w1, "createChatRoom")
        /\ ~ HasCall(w2, "createChatRoom")
        /\ Cardinality(chat_room_messages) = 2
        /\ Cardinality(chat_rooms) = 1

\* C29: a static sticker that arrived for a conversation with a room, in an
\* invocation that returned without a failed call, was relayed: one
\* createChatRoomMessage call, and the persisted Message has the one content
\* item of category sticker.
C29_StaticStickerIsRelayed ==
    \A w \in Workers :
        ( /\ pc[w] = "returned"
          /\ outages = 0
          /\ frame[w].message.sticker = "static"
          /\ LookedUp(w)
          /\ frame[w].chat_room_id # Null )
        => /\ CallCount(w, "createChatRoomMessage") = 1
           /\ \E m \in chat_room_messages :
                 /\ m.message_id = frame[w].message_id
                 /\ m.chat_room_id = frame[w].chat_room_id
                 /\ m.content = << "sticker" >>

\* The relay invocation has left the join behind: it is at, or has issued,
\* a call that follows it.
PastJoin ==
    \/ relay_pc \in {"get_aggregated_data", "create_chat_room_message",
                     "get_the_presigned_url", "send", "returned"}
    \/ \E i \in 1..Len(relay_calls) : relay_calls[i] # "create_postgresql_connection"

C24_BothTasksFinished ==
    PastJoin
    => /\ relay_frame.check = "put"
       /\ relay_frame.connection = "put"
       /\ relay_connection = "open"
       /\ ~ InvalidArguments(input_arguments)

C24_NothingWhileRunning ==
    ( relay_frame.check \in {"running", "raised"}
      \/ relay_frame.connection \in {"running", "raised"} )
    => /\ UNCHANGED store
       /\ relay_pc' \in {"run_multithreading_tasks", "raised"}

\* C24: the room lookup, the persistence step and everything after them run
\* only when both threads of the setup have ended with their result in the
\* queue (validated arguments and an open connection); while a thread is
\* running, and after either has failed, no step changes a store or goes
\* past the join.
C24_JoinBeforeLookup ==
    [] C24_BothTasksFinished /\ [][C24_NothingWhileRunning]_vars

\* The arguments were validated and put into the queue while the connection
\* thread failed: the handler raised at the join, with no lookup issued.
C24_Witness ==
    /\ relay_pc = "raised"
    /\ relay_frame.check = "put"
    /\ relay_frame.connection = "raised"
    /\ relay_connection = Null
    /\ relay_calls = << "create_postgresql_connection" >>
    /\ ~ InvalidArguments(input_arguments)

\* C30: a relay invocation that has returned after sending exactly one
\* content item of category document, image, video, audio or gif passed the
\* message text as the caption of the send call, and no caption when the
\* message has no text.
C30_CaptionIffText ==
    ( /\ relay_pc = "returned"
      /\ ContentItems = 1
      /\ input_arguments.messageContent.files[1].category
            \in {"document", "image", "video", "audio", "gif"} )
    => /\ Len(ChannelCalls) = 1
       /\ relay_frame.caption = input_arguments.messageText

\* The invocation of each handler has ended by the failure of a call.
WebhookFailed(w) == pc[w] = "raised"

RelayFailed(pcr, f) == pcr = "raised" \/ f.connection = "raised"

NotificationFailed(pcn) == pcn \in {"raised", "exited"}

\* A step in which a collaborator call fails leaves the handler that issued
\* it in its failed state: the handler whose log of calls grew, or, when the
\* new request fails at its first call as the previous one did, a handler
\* that has failed with a call in its log.
C23_FailureEndsTheInvocation ==
    outages' > outages
    => /\ \A w \in Workers : calls'[w] # calls[w] => WebhookFailed(w)'
       /\ relay_calls' # relay_calls => RelayFailed(relay_pc', relay_frame')
       /\ notification_calls' # notification_calls
             => NotificationFailed(notification_pc')
       /\ \/ \E w \in Workers : WebhookFailed(w)' /\ calls'[w] # << >>
          \/ RelayFailed(relay_pc', relay_frame') /\ relay_calls' # << >>
          \/ NotificationFailed(notification_pc') /\ notification_calls' # << >>

\* Within one request, a failed handler issues no call: its log of calls
\* stays as the failure left it.
C23_NoCallAfterFailure ==
    requests' = requests
    => /\ \A w \in Workers : WebhookFailed(w) => calls'[w] = calls[w]
       /\ RelayFailed(relay_pc, relay_frame) => relay_calls' = relay_calls
       /\ NotificationFailed(notification_pc)
             => notification_calls' = notification_calls

\* The example of the claim: the invocation that failed at createChatRoom
\* has called neither createChatRoomMessage nor updateMessageData.
C23_FailedAtCreateChatRoom ==
    \A w \in Workers :
        ( /\ WebhookFailed(w)
          /\ HasCall(w, "createChatRoom")
          /\ frame[w].chat_room_id = Null )
        => /\ ~ HasCall(w, "createChatRoomMessage")
           /\ ~ HasCall(w, "updateMessageData")
           /\ Len(SelectSeq(calls[w], LAMBDA c : c.call = "createChatRoom")) = 1

\* C23: in each of the three handlers, the step in which a collaborator
\* call fails ends the invocation in its failed state, and from then on the
\* request issues no collaborator call, neither a later one nor the failed
\* one again; an invocation that failed at createChatRoom has called
\* neither createChatRoomMessage nor updateMessageData.
C23_FailureAbortsTheRequest ==
    /\ [] C23_FailedAtCreateChatRoom
    /\ [][C23_FailureEndsTheInvocation /\ C23_NoCallAfterFailure]_vars

\* createChatRoom failed for the webhook invocation, whose last call it is.
C23_Witness ==
    /\ outages = 1
    /\ WebhookFailed("w1")
    /\ calls["w1"] # << >>
    /\ calls["w1"][Len(calls["w1"])].call = "createChatRoom"

\* The payloads of one file-bearing kind: document, gif (an animation with
\* its document), video, voice, audio, sticker (not animated) or photo.
FileBearingKind(message) ==
    \/ message.fields \in { {"document"}, {"animation", "document"}, {"video"},
                            {"voice"}, {"audio"}, {"photo"} }
    \/ message.fields = {"sticker"} /\ ~ message.is_animated

\* The extension the rule table fixes for the kind of a payload (.mp4 for
\* gif, .ogg for voice, .webp for sticker, .jpeg for photo).
FixedExtension(message) ==
    IF "animation" \in message.fields THEN "mp4"
    ELSE IF "voice" \in message.fields THEN "ogg"
    ELSE IF "sticker" \in message.fields THEN "webp"
    ELSE "jpeg"

\* A name made of the unique id of the file and an extension.
IsUniqueName(fileName) ==
    Len(fileName) = 3 /\ fileName[1] = "unique" /\ fileName[2] = "."

\* The kinds whose payload object may carry a file name.
NamedKind(message) ==
    message.fields \in { {"document"}, {"video"}, {"audio"} }

\* The tokens of a key after its last "/".
LastSegment(key) ==
    LET slash == CHOOSE i \in 1..Len(key) :
                     /\ key[i] = "/"
                     /\ \A k \in (i + 1)..Len(key) : key[k] # "/"
    IN [ k \in 1..(Len(key) - slash) |-> key[slash + k] ]

\* C31: for a payload of one file-bearing kind, with or without a file
\* name, form_message_format returns one content item whose file name is
\* the supplied name when there is one and otherwise the unique id with
\* the fixed extension of the kind, and that name is the last segment of
\* the upload key.
C31_FileNameDerivation ==
    ( Classified /\ FileBearingKind(payload) )
    => /\ formatted.outcome = "returned"
       /\ Len(formatted.content) = 1
       /\ IF NamedKind(payload)
          THEN IF payload.file_name # << >>
               THEN formatted.content[1].fileName = payload.file_name
               ELSE IsUniqueName(formatted.content[1].fileName)
          ELSE formatted.content[1].fileName = UniqueName(FixedExtension(payload))
       /\ formatted.content[1].key # << >>
       /\ LastSegment(formatted.content[1].key) = formatted.content[1].fileName

\* The id of an operator: a users row whose internal_user_id is set.
IsOperatorId(user_id) ==
    \E u \in users : u.user_id = user_id /\ u.internal_user_id # Null

\* The client id an invocation holds is not the id of an operator, and an
\* invocation whose room lookup found a room holds a client id.
C32_ClientIdOfTheLookups ==
    \A w \in Workers :
        /\ frame[w].client_id # Null => ~ IsOperatorId(frame[w].client_id)
        /\ frame[w].chat_room_status # Null => frame[w].client_id # Null

\* The identity lookup goes on to the room creation only with a client id,
\* which is not the id of an operator, and to the creation of the client
\* only without one.
C32_IdentityLookupStep ==
    \A w \in Workers :
        pc[w] = "get_identified_user_data"
        => /\ pc'[w] = "create_chat_room"
                => /\ frame'[w].client_id # Null
                   /\ ~ IsOperatorId(frame'[w].client_id)
           /\ pc'[w] = "create_identified_user" => frame'[w].client_id = Null

\* C32: whatever the users, profile and membership tables hold, the client
\* id produced by the room lookup and by the identity lookup is never the
\* id of an operator, and a lookup that found a row yields a client id that
\* is not null.
C32_LookupsExcludeOperators ==
    [] C32_ClientIdOfTheLookups /\ [][C32_IdentityLookupStep]_vars

\* The identity lookup found the client of alice although an operator row
\* references the same profile.
C32_Witness ==
    /\ pc["w1"] = "create_chat_room"
    /\ frame["w1"].client_id = "client_a"
    /\ ~ HasCall("w1", "insert_user")
    /\ \E u \in users : u.user_id = "operator_a"

\* C40: a step in which the webhook handler calls createChatRoom starts in
\* a state where no chat room is linked to the external conversation of
\* the event, whatever membership rows the rooms have.
C40_NoCreateForLinkedConversation ==
    [][ \A w \in Workers :
          ( /\ pc[w] = "create_chat_room"
            /\ calls'[w] # calls[w] )
          => RoomsOf(ConversationOf(w)) = {} ]_vars

\* The step issues create_postgresql_connection as the latest call of a log.
Creates(log, next) ==
    /\ next # log
    /\ next # << >>
    /\ next[Len(next)] = "create_postgresql_connection"

WebhookCreates(w) ==
    /\ calls'[w] # calls[w]
    /\ calls'[w] # << >>
    /\ calls'[w][Len(calls'[w])].call = "create_postgresql_connection"

\* Lazy, and at most once: a connection is created only into an empty
\* cache, and the step leaves the new handle in the cache or, when the
\* creation failed, leaves the cache empty and the invocation failed.
C33_CreatedIntoEmptyCache ==
    /\ \A w \in Workers :
          WebhookCreates(w)
          => /\ POSTGRESQL_CONNECTION[w] = Null
             /\ \/ POSTGRESQL_CONNECTION'[w] # Null
                \/ POSTGRESQL_CONNECTION'[w] = Null /\ WebhookFailed(w)'
    /\ Creates(relay_calls, relay_calls')
          => /\ relay_connection = Null
             /\ \/ relay_connection' # Null
                \/ relay_connection' = Null /\ RelayFailed(relay_pc', relay_frame')
    /\ Creates(notification_calls, notification_calls')
          => /\ notification_connection = Null
             /\ \/ notification_connection' # Null
                \/ notification_connection' = Null
                      /\ NotificationFailed(notification_pc')

\* Never closed: a handle in the cache stays there as long as the process
\* of the worker runs (sys.exit(1) of the notification handler ends it).
C33_HandleKept ==
    /\ \A w \in Workers :
          POSTGRESQL_CONNECTION[w] # Null
          => POSTGRESQL_CONNECTION'[w] = POSTGRESQL_CONNECTION[w]
    /\ relay_connection # Null => relay_connection' = relay_connection
    /\ ( notification_connection # Null /\ notification_pc' # "exited" )
          => notification_connection' = notification_connection

\* An invocation that resolves its connection while the cache is empty
\* attempts the creation.
C33_EmptyCacheIsFilled ==
    /\ \A w \in Workers :
          ( /\ POSTGRESQL_CONNECTION[w] = Null
            /\ requests' > requests
            /\ pc'[w] # pc[w] \/ frame'[w] # frame[w]
            /\ pc'[w] # "returned" )
          => calls'[w] = << Call("create_postgresql_connection", Null) >>
    /\ ( /\ relay_connection = Null
         /\ relay_frame.connection = "running"
         /\ relay_frame'.connection # "running" )
          => relay_calls' = Append(relay_calls, "create_postgresql_connection")
    /\ ( /\ notification_connection = Null
         /\ notification_pc = "create_postgresql_connection"
         /\ notification_pc' # notification_pc )
          => notification_calls' =
                Append(notification_calls, "create_postgresql_connection")

ChannelChatIds(chat_room_id) ==
    { c \in ChatIds :
        \E l \in telegram_chat_rooms, b \in BusinessAccounts :
            /\ l.chat_room_id = chat_room_id
            /\ l.telegram_chat_id = FormatTelegramChatId(b, c) }

\* C34: the chat_id the outbound relay has resolved for the room of its
\* request, and the chat_id of the sendMessage call of a notification, is
\* the channel chat id c of the inbound event the room was
\* created from, not the stored composite "b:c".
C34_ConversationIdRoundTrip ==
    /\ relay_frame.telegram_chat_id # << >>
          => relay_frame.telegram_chat_id \in ChannelChatIds(input_arguments.chatRoomId)
    /\ notification_frame.chat_id # << >>
          => notification_frame.chat_id
                \in ChannelChatIds(notification_arguments.chatRoomId)

\* The number of createChatRoomMessage calls of the relay invocation.
RelayPersistCalls ==
    Cardinality({ i \in 1..Len(relay_calls) : relay_calls[i] = "createChatRoomMessage" })

\* The relay invocation failed at its Bot API call.
RelaySendFailed ==
    /\ relay_pc = "raised"
    /\ relay_calls # << >>
    /\ relay_calls[Len(relay_calls)] \in ChannelMethods

\* C35: a relay invocation calls createChatRoomMessage at most once, and
\* exactly once before it presigns, sends or returns; every Bot API call
\* in its log comes after that call; when the Bot API call failed, the
\* message the invocation persisted is in the message log, nothing was
\* delivered and the response is not a success.
C35_PersistedBeforeSend ==
    /\ RelayPersistCalls <= 1
    /\ relay_pc \in {"get_the_presigned_url", "send", "returned"} => RelayPersistCalls = 1
    /\ \A i \in 1..Len(relay_calls) :
          relay_calls[i] \in ChannelMethods
          => \E k \in 1..(i - 1) : relay_calls[k] = "createChatRoomMessage"
    /\ RelaySendFailed
          => /\ \E m \in chat_room_messages :
                   /\ m.message_id = relay_frame.message_id
                   /\ m.chat_room_id = input_arguments.chatRoomId
             /\ relay_frame.sent = << >>
             /\ relay_frame.statusCode # "200"

\* The send of a persisted message failed.
C35_Witness ==
    /\ RelaySendFailed
    /\ RelayPersistCalls = 1
    /\ \E m \in chat_room_messages : m.message_id = relay_frame.message_id

\* C36: the log of a relay invocation holds at most one Bot API send call,
\* whatever text and content the request carries.
C36_AtMostOneSendCall ==
    Len(ChannelCalls) <= 1

\* A request with text and several files has returned after its one call.
C36_Witness ==
    /\ relay_pc = "returned"
    /\ input_arguments.messageText # Null
    /\ ContentItems >= 2
    /\ ChannelCalls = << "sendMediaGroup" >>

\* C37: every upload_file_to_s3_bucket call of a webhook invocation
\* carries the id of a room: an invocation that found no room for the
\* conversation issues no upload, whatever the payload and the room status.
C37_UploadsCarryARoomId ==
    \A w \in Workers :
        /\ \A i \in 1..Len(calls[w]) :
              calls[w][i].call = "upload_file_to_s3_bucket" => calls[w][i].arg # Null
        /\ FoundNoRoom(w) => ~ HasCall(w, "upload_file_to_s3_bucket")

\* The photo of a conversation that has a room was uploaded under the room.
C37_Witness ==
    /\ HasCall("w1", "upload_file_to_s3_bucket")
    /\ frame["w1"].message.media = "photo"
    /\ frame["w1"].chat_room_id = "room1"
    /\ calls["w1"][Len(calls["w1"])] = Call("upload_file_to_s3_bucket", "room1")

\* The chatRoomId of the relay request is well formed and no chat room has it.
NoSuchRoom ==
    /\ UuidAccepts(input_arguments.chatRoomId)
    /\ \A r \in chat_rooms : r.chat_room_id # input_arguments.chatRoomId

\* The request for a room that does not exist gets no further than the
\* room lookup, where it ends with an error.
C38_AbortedAtTheLookup ==
    NoSuchRoom
    => /\ relay_pc \in {"run_multithreading_tasks", "get_aggregated_data", "raised"}
       /\ relay_frame.statusCode # "200"
       /\ RelayPersistCalls = 0
       /\ ChannelCalls = << >>
       /\ ( \E i \in 1..Len(relay_calls) : relay_calls[i] = "get_aggregated_data" )
             => relay_pc = "raised" /\ relay_frame.statusCode = "error"

\* C38: a relay request whose well-formed chatRoomId matches no chat room
\* ends with an error at the room lookup: it issues no
\* createChatRoomMessage and no Bot API call, and no step of it changes the
\* store.
C38_UnknownRoomAborts ==
    /\ [] C38_AbortedAtTheLookup
    /\ [][NoSuchRoom /\ NoSuchRoom' => store' = store]_vars

\* The lookup of a room that does not exist has raised, with no outage.
C38_Witness ==
    /\ NoSuchRoom
    /\ outages = 0
    /\ relay_pc = "raised"
    /\ relay_calls # << >>
    /\ relay_calls[Len(relay_calls)] = "get_aggregated_data"

\* The request has valid required identifiers and no quoted message: the
\* quotedMessage key is absent, or present with the value null.
WithoutQuotedMessage(arguments) ==
    /\ ~ MissingOrNoUuid(arguments.chatRoomId)
    /\ ~ MissingOrNoUuid(arguments.messageAuthorId)
    /\ ~ MissingOrNoUuid(arguments.messageChannelId)
    /\ arguments.quotedMessage.messageId = Null
    /\ arguments.quotedMessage.messageAuthorId = Null
    /\ arguments.quotedMessage.messageChannelId = Null

\* C39: a relay request without a quoted message passes the validation
\* whether its quotedMessage key is absent or null, and goes on to the room
\* lookup once the connection is there.
C39_NullQuotedMessageIsAbsent ==
    WithoutQuotedMessage(input_arguments)
    => /\ relay_frame.check # "raised"
       /\ ( relay_pc = "raised" /\ relay_frame.connection = "put" )
             => \E i \in 1..Len(relay_calls) : relay_calls[i] = "get_aggregated_data"

====
